---------------------------- MODULE Spec2Model ----------------------------
(***************************************************************************)
(* A model of the dependency-aware documentation ordering engine of        *)
(* genai_docs: ModuleNode edge lists (core_types.py), the graph analyzer   *)
(* (dependency_analyzer.py, on top of networkx) and the documentation      *)
(* scheduler (documentation_generator.py).                                 *)
(*                                                                         *)
(* A ModuleNode is identified by its path (core_types.py __eq__/__hash__). *)
(* Nodes are numbered 1..NumNodes in the insertion order of                *)
(* DependencyGraph.nodes, which is the pre-order of the module tree.       *)
(***************************************************************************)
EXTENDS Integers, Sequences, FiniteSets, TLC

\* Number of ModuleNode objects (distinct paths).
NumNodes == 3

\* Bound on the total number of dependency edges of the graphs explored.
MaxEdges == 3

Nodes == 1..NumNodes

\* Short names (ModuleNode.name); two nodes may carry the same short name.
Names == 1..NumNodes

\* Python's None where a node is expected.
None == 0

VARIABLES
  name,            \* ModuleNode.name, per node
  dependencies,    \* ModuleNode.dependencies, per node: a list of nodes
  dependents,      \* ModuleNode.dependents, per node: a list of nodes
  cycle_group,     \* ModuleNode.cycle_group, per node: None or a list of nodes
  is_cycle_representative,  \* ModuleNode.is_cycle_representative, per node
  hist,            \* the last edge operations and the lists before them
  ret,             \* outcome of the last analyzer call
  parent,          \* ModuleNode.parent, per node (None for the root)
  is_package,      \* ModuleNode.is_package, per node
  content,         \* ModuleNode.content, per node: present or not, and its imports
  documentation,   \* ModuleNode.documentation, per node
  processed,       \* ModuleNode.processed, per node
  cache,           \* DocumentationGenerator.cache and the entries it holds
  force_regenerate,  \* DocumentationGenerator.force_regenerate
  run,             \* the call of document_module_tree_bottom_up in progress
  builder,         \* a DependencyGraphBuilder and the ImportAnalyzer it owns
  files            \* the source file behind each node's get_file_path()

nodeVars == <<name, dependencies, dependents, cycle_group, is_cycle_representative>>
schedVars == <<parent, is_package, content, documentation, processed, cache,
               force_regenerate, run, builder, files>>
vars == <<name, dependencies, dependents, cycle_group, is_cycle_representative,
          hist, ret, parent, is_package, content, documentation, processed, cache,
          force_regenerate, run, builder, files>>

-----------------------------------------------------------------------------
(* Python list helpers *)

\* x in s
InList(x, s) == \E i \in 1..Len(s) : s[i] = x

\* the set of a list's elements
ListSet(s) == {s[i] : i \in 1..Len(s)}

\* position of the first occurrence of x in s (list.index), 0 when absent
IndexOf(x, s) ==
  IF InList(x, s) THEN CHOOSE i \in 1..Len(s) : s[i] = x /\ \A j \in 1..(i-1) : s[j] # x
  ELSE 0

\* list.remove(x): drops the first occurrence of x
ListRemove(s, x) ==
  LET i == IndexOf(x, s)
  IN IF i = 0 THEN s
     ELSE [k \in 1..(Len(s)-1) |-> IF k < i THEN s[k] ELSE s[k+1]]

EmptyLists == [n \in Nodes |-> <<>>]

EdgeCount(deps) ==
  LET RECURSIVE Sum(_)
      Sum(n) == IF n = 0 THEN 0 ELSE Len(deps[n]) + Sum(n-1)
  IN Sum(NumNodes)

-----------------------------------------------------------------------------
(* ModuleNode.add_dependency / remove_dependency *)

\* A mutant of add_dependency that forgets the reverse edge.
add_dependency_forward_only(deps, dpts, a, b) ==
  [dependencies |-> IF InList(b, deps[a]) THEN deps
                    ELSE [deps EXCEPT ![a] = Append(@, b)],
   dependents   |-> dpts]

\* self.add_dependency(dependency_node) with self = a, dependency_node = b
add_dependency(deps, dpts, a, b) ==
  [dependencies |-> IF InList(b, deps[a]) THEN deps
                    ELSE [deps EXCEPT ![a] = Append(@, b)],
   dependents   |-> IF InList(a, dpts[b]) THEN dpts
                    ELSE [dpts EXCEPT ![b] = Append(@, a)]]

\* A mutant of remove_dependency that leaves the reverse edge in place.
remove_dependency_forward_only(deps, dpts, a, b) ==
  [dependencies |-> IF InList(b, deps[a]) THEN [deps EXCEPT ![a] = ListRemove(@, b)]
                    ELSE deps,
   dependents   |-> dpts]

\* self.remove_dependency(dependency_node) with self = a, dependency_node = b
remove_dependency(deps, dpts, a, b) ==
  [dependencies |-> IF InList(b, deps[a]) THEN [deps EXCEPT ![a] = ListRemove(@, b)]
                    ELSE deps,
   dependents   |-> IF InList(a, dpts[b]) THEN [dpts EXCEPT ![b] = ListRemove(@, a)]
                    ELSE dpts]

NoHist == [op |-> "none", a |-> None, b |-> None,
           pre_dependencies |-> EmptyLists, pre_dependents |-> EmptyLists]

\* No analyzer call made yet.
NoRet == [op |-> "none", kind |-> "none", exc |-> "", order |-> <<>>, cycles |-> <<>>]

\* Field defaults of the ModuleNode dataclass (core_types.py).
\* cycle_group = None is written as the empty list: a group is never empty.
NoGroup == <<>>
NoCycleGroup == [n \in Nodes |-> NoGroup]
NoRepresentative == [n \in Nodes |-> FALSE]

\* Documentation texts as token lists: the leading token is what
\* str.startswith("Error:") looks at. None and "" are both the empty list.
NoDoc == <<>>
GoodDoc == <<"text">>
\* what LLMClient.generate_documentation returns when the backend fails
LLMErrorDoc == <<"Error:", "Failed to generate documentation">>
\* a text a node carries from an earlier run
ExistingDoc == <<"existing", "text">>
\* what the scheduler stores in the node when documenting it failed
FailedDoc == <<"Error:", "Failed to generate documentation:", "e">>

\* content = None
NoContent == [present |-> FALSE, syntax_ok |-> TRUE, imports |-> <<>>]

\* DependencyGraphBuilder(project_root) as constructed: an empty
\* module_path_map, and an ImportAnalyzer with no external module noted
NewBuilder(project_root) ==
  [project_root |-> project_root, module_path_map |-> {}, external_modules |-> {}]

\* Hashes as token lists; "" is the empty list.
NoHash == <<>>

\* DocumentationGenerator.cache = None
NoCache == [attached |-> FALSE,
            cache_data |-> [n \in Nodes |-> [hash |-> NoHash, documentation |-> NoDoc]]]

\* str(stat.st_mtime) of two modification times, character by character
Mtimes == {<<"1", ".", "5">>, <<"1", ".", "5", "1">>}

\* the bytes a source file may hold: none, or one character
FileContents == {<<>>, <<"a">>, <<"1">>}

\* A source file as the cache sees it: a regular file that can be read, a
\* file that exists and cannot be read (open raises OSError), or no file.
SourceFile(status, bytes, mtime) ==
  [status |-> status, content |-> bytes, mtime |-> mtime]

\* a file as the tree builder found it
DefaultFile == SourceFile("file", <<>>, <<"1", ".", "5">>)

\* document_module_tree_bottom_up has not been called.
IdleRun == [mode |-> "none", pc |-> "idle", doc_order |-> <<>>, cycles |-> <<>>,
            i |-> 0, c |-> 0, k |-> 0, exc |-> "", calls |-> <<>>, failed |-> None,
            failure |-> "", entry_processed |-> {},
            progress_total |-> 0, progress_current |-> 0, returned |-> NoDoc]

\* Field defaults of ModuleNode and of DocumentationGenerator.__init__.
NoRunYet ==
  /\ parent = [n \in Nodes |-> None]
  /\ is_package = [n \in Nodes |-> FALSE]
  /\ content = [n \in Nodes |-> NoContent]
  /\ documentation = [n \in Nodes |-> NoDoc]
  /\ processed = [n \in Nodes |-> FALSE]
  /\ cache = NoCache
  /\ force_regenerate = FALSE
  /\ run = IdleRun
  /\ builder = NewBuilder(1)
  /\ files = [n \in Nodes |-> DefaultFile]

\* Nodes as constructed: ModuleNode(path, name) has empty edge lists.
InitEdges ==
  /\ name = [n \in Nodes |-> n]
  /\ dependencies = EmptyLists
  /\ dependents = EmptyLists
  /\ cycle_group = NoCycleGroup
  /\ is_cycle_representative = NoRepresentative
  /\ hist = NoHist
  /\ ret = NoRet
  /\ NoRunYet

\* a.add_dependency(b); the lists before the call are remembered.
AddDependency(a, b) ==
  LET r == add_dependency(dependencies, dependents, a, b)
  IN /\ EdgeCount(r.dependencies) <= MaxEdges
     /\ dependencies' = r.dependencies
     /\ dependents' = r.dependents
     /\ hist' = [op |-> "add", a |-> a, b |-> b,
                 pre_dependencies |-> dependencies, pre_dependents |-> dependents]
     /\ UNCHANGED <<name, cycle_group, is_cycle_representative, ret, schedVars>>

\* a.remove_dependency(b); when it directly follows a.add_dependency(b) the
\* lists from before that add stay remembered.
RemoveDependency(a, b) ==
  LET r == remove_dependency(dependencies, dependents, a, b)
      undo == hist.op = "add" /\ hist.a = a /\ hist.b = b
  IN /\ dependencies' = r.dependencies
     /\ dependents' = r.dependents
     /\ hist' = IF undo THEN [hist EXCEPT !.op = "add_remove"]
                ELSE [NoHist EXCEPT !.op = "remove"]
     /\ UNCHANGED <<name, cycle_group, is_cycle_representative, ret, schedVars>>

NextEdges ==
  \/ \E a, b \in Nodes : AddDependency(a, b)
  \/ \E a, b \in Nodes : RemoveDependency(a, b)

SpecEdges == InitEdges /\ [][NextEdges]_vars

-----------------------------------------------------------------------------
(* ModuleNode.get_all_dependencies / get_all_dependents (core_types.py)     *)

\* The depth at which the interpreter stops a recursion with RecursionError
\* (sys.getrecursionlimit()), scaled to the graphs explored: a recursion
\* along distinct nodes is never deeper than NumNodes.
RecursionLimit == NumNodes + 1

\* The recursion of get_all_dependencies (adj = the dependencies lists) and
\* of get_all_dependents (adj = the dependents lists): every direct
\* neighbour and, by a recursive call, everything the neighbour returns. No
\* set of visited nodes is kept.
RECURSIVE get_all_recursive(_, _, _)
get_all_recursive(adj, n, depth) ==
  IF depth > RecursionLimit
  THEN [kind |-> "raise", exc |-> "RecursionError", value |-> {}]
  ELSE LET sub == [j \in 1..Len(adj[n]) |-> get_all_recursive(adj, adj[n][j], depth + 1)]
       IN IF \E j \in 1..Len(sub) : sub[j].kind = "raise"
          THEN [kind |-> "raise", exc |-> "RecursionError", value |-> {}]
          ELSE [kind |-> "return", exc |-> "",
                value |-> ListSet(adj[n]) \cup UNION {sub[j].value : j \in 1..Len(sub)}]

\* node.get_all_dependencies()
get_all_dependencies(n) == get_all_recursive(dependencies, n, 1)

\* node.get_all_dependents()
get_all_dependents(n) == get_all_recursive(dependents, n, 1)

GetAllDependencies(n) ==
  /\ LET r == get_all_dependencies(n)
     IN ret' = [op |-> "get_all_dependencies", node |-> n, kind |-> r.kind,
                exc |-> r.exc, value |-> r.value]
  /\ hist' = [NoHist EXCEPT !.op = "get_all"]
  /\ UNCHANGED <<nodeVars, schedVars>>

GetAllDependents(n) ==
  /\ LET r == get_all_dependents(n)
     IN ret' = [op |-> "get_all_dependents", node |-> n, kind |-> r.kind,
                exc |-> r.exc, value |-> r.value]
  /\ hist' = [NoHist EXCEPT !.op = "get_all"]
  /\ UNCHANGED <<nodeVars, schedVars>>

\* Edges are added between nodes that start with empty lists, and the two
\* closures are asked for in between.
NextClosure ==
  \/ \E a, b \in Nodes : AddDependency(a, b)
  \/ \E n \in Nodes : GetAllDependencies(n)
  \/ \E n \in Nodes : GetAllDependents(n)

SpecClosure == InitEdges /\ [][NextClosure]_vars

-----------------------------------------------------------------------------
(* The name-keyed DependencyGraph (dependency_graph.py): nodes is a dict    *)
(* from name to data, edges a dict from (from, to) to data. The data play   *)
(* no part in which keys exist, so both dicts are taken as their key sets.  *)

\* DependencyGraph.__init__
EmptyGraph == [nodes |-> {}, edges |-> {}]

\* graph.add_node(name, data)
add_node(g, nm) == [g EXCEPT !.nodes = @ \cup {nm}]

\* A mutant of add_edge that does not create missing endpoints.
add_edge_between_known_nodes(g, from_node, to_node) ==
  [g EXCEPT !.edges = @ \cup {<<from_node, to_node>>}]

\* graph.add_edge(from_node, to_node): both endpoints are created when
\* missing, then the edge is stored
add_edge(g, from_node, to_node) ==
  [nodes |-> g.nodes \cup {from_node, to_node},
   edges |-> g.edges \cup {<<from_node, to_node>>}]

\* graph.remove_node(name): the node goes, and every edge with name in it
remove_node(g, nm) ==
  [nodes |-> g.nodes \ {nm},
   edges |-> {e \in g.edges : e[1] # nm /\ e[2] # nm}]

\* graph.clear_graph() and its alias graph.clear()
clear_graph(g) == EmptyGraph

\* graph.get_subgraph(node_names): the listed names that are nodes, and the
\* edges with both ends among the listed names
get_subgraph(g, node_names) ==
  [nodes |-> {nm \in node_names : nm \in g.nodes},
   edges |-> {e \in g.edges : e[1] \in node_names /\ e[2] \in node_names}]

NoSubgraph == [op |-> "none", node_names |-> {}, subgraph |-> EmptyGraph]

InitGraph ==
  /\ hist = [op |-> "init", graph |-> EmptyGraph]
  /\ ret = NoSubgraph
  /\ name = [n \in Nodes |-> n]
  /\ dependencies = EmptyLists
  /\ dependents = EmptyLists
  /\ cycle_group = NoCycleGroup
  /\ is_cycle_representative = NoRepresentative
  /\ NoRunYet

AddNode(nm) ==
  /\ hist' = [op |-> "add_node", graph |-> add_node(hist.graph, nm)]
  /\ ret' = NoSubgraph
  /\ UNCHANGED <<nodeVars, schedVars>>

AddEdge(from_node, to_node) ==
  /\ LET g == add_edge(hist.graph, from_node, to_node)
     IN /\ Cardinality(g.edges) <= MaxEdges
        /\ hist' = [op |-> "add_edge", graph |-> g]
  /\ ret' = NoSubgraph
  /\ UNCHANGED <<nodeVars, schedVars>>

RemoveNode(nm) ==
  /\ hist' = [op |-> "remove_node", graph |-> remove_node(hist.graph, nm)]
  /\ ret' = NoSubgraph
  /\ UNCHANGED <<nodeVars, schedVars>>

ClearGraph ==
  /\ hist' = [op |-> "clear", graph |-> clear_graph(hist.graph)]
  /\ ret' = NoSubgraph
  /\ UNCHANGED <<nodeVars, schedVars>>

GetSubgraph(node_names) ==
  /\ ret' = [op |-> "get_subgraph", node_names |-> node_names,
             subgraph |-> get_subgraph(hist.graph, node_names)]
  /\ hist' = [hist EXCEPT !.op = "get_subgraph"]
  /\ UNCHANGED <<nodeVars, schedVars>>

NextGraph ==
  \/ \E nm \in Names : AddNode(nm)
  \/ \E from_node, to_node \in Names : AddEdge(from_node, to_node)
  \/ \E nm \in Names : RemoveNode(nm)
  \/ ClearGraph
  \/ \E node_names \in SUBSET Names : GetSubgraph(node_names)

SpecGraph == InitGraph /\ [][NextGraph]_vars

-----------------------------------------------------------------------------
(* The networkx digraph that DependencyAnalyzer builds from a graph:        *)
(* nx_graph.add_node(node.name) for every node, then                        *)
(* nx_graph.add_edge(node.name, dep.name) for every dependency. The graph   *)
(* is keyed by short name; insertion order is kept, as in a Python dict.    *)

\* s with x appended unless already present (dict insertion of a key)
AppendNew(s, x) == IF InList(x, s) THEN s ELSE Append(s, x)

RECURSIVE AppendAllNew(_, _)
AppendAllNew(s, t) ==
  IF t = <<>> THEN s ELSE AppendAllNew(AppendNew(s, Head(t)), Tail(t))

\* DependencyGraph.get_all_nodes(): the nodes in insertion order
get_all_nodes == [i \in 1..NumNodes |-> i]

\* DependencyGraph.get_node_by_name(name): the first node with that name
get_node_by_name(nm, x) ==
  IF \E n \in Nodes : nm[n] = x
  THEN CHOOSE n \in Nodes : nm[n] = x /\ \A m \in 1..(n-1) : nm[m] # x
  ELSE None

\* the digraph's nodes, in insertion order
NxNodes(nm) == AppendAllNew(<<>>, [i \in 1..NumNodes |-> nm[i]])

\* the digraph's successor lists, in insertion order
NxAdj(nm, deps) ==
  LET RECURSIVE Succ(_, _, _)
      Succ(u, n, acc) ==
        IF n > NumNodes THEN acc
        ELSE Succ(u, n + 1,
                  IF nm[n] = u
                  THEN AppendAllNew(acc, [i \in 1..Len(deps[n]) |-> nm[deps[n][i]]])
                  ELSE acc)
  IN [u \in Names |-> Succ(u, 1, <<>>)]

NxDiGraph(nm, deps) == [nodes |-> NxNodes(nm), adj |-> NxAdj(nm, deps)]

\* G.in_degree(v)
NxInDegree(g, v) == Cardinality({u \in ListSet(g.nodes) : InList(v, g.adj[u])})

(* networkx's exception classes (networkx/exception.py): each class with    *)
(* the classes it derives from. NetworkXUnfeasible derives from             *)
(* NetworkXAlgorithmError, not from NetworkXError. The classes of           *)
(* exceptions.py derive from GenAIDocsError; KeyboardInterrupt derives from *)
(* BaseException and is no Exception.                                       *)
ExcBases(c) ==
  CASE c = "NetworkXUnfeasible" ->
         {"NetworkXUnfeasible", "NetworkXAlgorithmError", "NetworkXException", "Exception"}
    [] c = "NetworkXError" -> {"NetworkXError", "NetworkXException", "Exception"}
    [] c = "ValueError" -> {"ValueError", "Exception"}
    [] c \in {"DocumentationError", "LLMError", "ConfigurationError"} ->
         {c, "GenAIDocsError", "Exception"}
    [] c = "KeyboardInterrupt" -> {"KeyboardInterrupt", "BaseException"}
    [] OTHER -> {c, "Exception"}

\* A mutant in which a handler for NetworkXError also takes NetworkXUnfeasible.
ExceptMatchesUnfeasibleToo(c, handler) ==
  handler \in ExcBases(c) \/ (c = "NetworkXUnfeasible" /\ handler = "NetworkXError")

\* "except handler:" catches an exception of class c
ExceptMatches(c, handler) == handler \in ExcBases(c)

(* nx.topological_sort(G): Kahn's algorithm by generations                  *)
(* (networkx.algorithms.dag.topological_generations). Nodes of in-degree 0  *)
(* come first, in insertion order; a node is emitted once all its           *)
(* predecessors have been. When nodes are left over the generator raises    *)
(* NetworkXUnfeasible("Graph contains a cycle or graph changed during       *)
(* iteration").                                                             *)
RECURSIVE KahnVisitChildren(_, _)
KahnVisitChildren(children, st) ==
  IF children = <<>> THEN st
  ELSE LET c == Head(children)
           d == st.indeg[c] - 1
       IN KahnVisitChildren(Tail(children),
            [indeg |-> [st.indeg EXCEPT ![c] = d],
             zero  |-> IF d = 0 THEN Append(st.zero, c) ELSE st.zero])

RECURSIVE KahnVisitGeneration(_, _, _)
KahnVisitGeneration(gen, adj, st) ==
  IF gen = <<>> THEN st
  ELSE KahnVisitGeneration(Tail(gen), adj, KahnVisitChildren(adj[Head(gen)], st))

RECURSIVE KahnLoop(_, _, _, _)
KahnLoop(zero, indeg, adj, out) ==
  IF zero = <<>> THEN [order |-> out, left |-> {v \in DOMAIN indeg : indeg[v] > 0}]
  ELSE LET st == KahnVisitGeneration(zero, adj, [indeg |-> indeg, zero |-> <<>>])
       IN KahnLoop(st.zero, st.indeg, adj, out \o zero)

\* A mutant that emits every node after the nodes it points to.
nx_topological_sort_reversed(g) ==
  LET indeg == [v \in Names |-> IF InList(v, g.nodes) THEN NxInDegree(g, v) ELSE 0]
      zero == SelectSeq(g.nodes, LAMBDA v : indeg[v] = 0)
      k == KahnLoop(zero, indeg, g.adj, <<>>)
  IN IF k.left = {}
     THEN [kind |-> "return", exc |-> "", has_cycle_msg |-> FALSE,
           order |-> [i \in 1..Len(k.order) |-> k.order[Len(k.order) + 1 - i]]]
     ELSE [kind |-> "raise", exc |-> "NetworkXUnfeasible", has_cycle_msg |-> TRUE,
           order |-> <<>>]

\* list(nx.topological_sort(g))
nx_topological_sort(g) ==
  LET indeg == [v \in Names |-> IF InList(v, g.nodes) THEN NxInDegree(g, v) ELSE 0]
      zero == SelectSeq(g.nodes, LAMBDA v : indeg[v] = 0)
      k == KahnLoop(zero, indeg, g.adj, <<>>)
  IN IF k.left = {}
     THEN [kind |-> "return", exc |-> "", has_cycle_msg |-> FALSE, order |-> k.order]
     ELSE [kind |-> "raise", exc |-> "NetworkXUnfeasible", has_cycle_msg |-> TRUE,
           order |-> <<>>]

(* nx.simple_cycles(G): every elementary circuit of the digraph once,       *)
(* self-loops included. The order of the circuits and the node each one     *)
(* starts at are internals of the library: here a circuit starts at its     *)
(* earliest-inserted node and the circuits come in a fixed arbitrary order. *)
RECURSIVE CircuitsThrough(_, _)
CircuitsThrough(g, p) ==
  LET last == p[Len(p)]
      closes == IF InList(p[1], g.adj[last]) THEN {p} ELSE {}
      next == {v \in ListSet(g.adj[last]) :
                 ~InList(v, p) /\ IndexOf(v, g.nodes) > IndexOf(p[1], g.nodes)}
  IN closes \cup UNION {CircuitsThrough(g, Append(p, v)) : v \in next}

RECURSIVE SetToList(_)
SetToList(S) ==
  IF S = {} THEN <<>>
  ELSE LET x == CHOOSE y \in S : TRUE IN <<x>> \o SetToList(S \ {x})

nx_simple_cycles(g) ==
  SetToList(UNION {CircuitsThrough(g, <<r>>) : r \in ListSet(g.nodes)})

-----------------------------------------------------------------------------
(* DependencyAnalyzer (dependency_analyzer.py) *)

\* names mapped back to nodes, names without a node dropped
NodesOfNames(nm, ns) ==
  LET all == [i \in 1..Len(ns) |-> get_node_by_name(nm, ns[i])]
  IN SelectSeq(all, LAMBDA n : n # None)

\* DependencyAnalyzer._detect_cycles(graph)
detect_cycles(nm, deps) ==
  LET found == nx_simple_cycles(NxDiGraph(nm, deps))
      groups == [i \in 1..Len(found) |-> NodesOfNames(nm, found[i])]
  IN SelectSeq(groups, LAMBDA c : c # <<>>)

\* DependencyAnalyzer._generate_topological_order(graph): the returned list,
\* or the exception that leaves the method
generate_topological_order(nm, deps) ==
  LET t == nx_topological_sort(NxDiGraph(nm, deps))
  IN IF t.kind = "return"
     THEN [kind |-> "return", exc |-> "", order |-> NodesOfNames(nm, t.order)]
     ELSE IF ExceptMatches(t.exc, "NetworkXError") /\ t.has_cycle_msg
          THEN [kind |-> "raise", exc |-> "ValueError", order |-> <<>>]
          ELSE [kind |-> "raise", exc |-> t.exc, order |-> <<>>]

\* sorted(nodes, key=lambda x: len(x.dependencies)): a stable sort
RECURSIVE SortedByDependencyCount(_, _)
SortedByDependencyCount(ns, deps) ==
  IF ns = <<>> THEN <<>>
  ELSE LET i == CHOOSE k \in 1..Len(ns) :
                  /\ \A j \in 1..Len(ns) : Len(deps[ns[k]]) <= Len(deps[ns[j]])
                  /\ \A j \in 1..(k-1) : Len(deps[ns[j]]) > Len(deps[ns[k]])
       IN <<ns[i]>> \o SortedByDependencyCount(
                          [k \in 1..(Len(ns)-1) |-> IF k < i THEN ns[k] ELSE ns[k+1]], deps)

\* DependencyAnalyzer.get_documentation_order(graph)
get_documentation_order(nm, deps) ==
  LET t == generate_topological_order(nm, deps)
  IN IF t.kind = "raise" /\ ExceptMatches(t.exc, "ValueError")
     THEN [kind |-> "return", exc |-> "",
           order |-> SortedByDependencyCount(get_all_nodes, deps)]
     ELSE t

\* max(cycle, key=lambda x: len(x.dependencies)): the first maximal member
MaxByDependencyCount(cycle, deps) ==
  cycle[CHOOSE k \in 1..Len(cycle) :
          /\ \A j \in 1..Len(cycle) : Len(deps[cycle[j]]) <= Len(deps[cycle[k]])
          /\ \A j \in 1..(k-1) : Len(deps[cycle[j]]) < Len(deps[cycle[k]])]

\* DependencyAnalyzer.get_cycle_representatives(graph)
get_cycle_representatives(nm, deps) ==
  LET cycles == detect_cycles(nm, deps)
  IN [i \in 1..Len(cycles) |-> MaxByDependencyCount(cycles[i], deps)]

\* Short names up to renaming: node 1 is named 1 and each further node reuses
\* an earlier name or takes the next unused one.
NameAssignments ==
  {nm \in [Nodes -> Names] :
     /\ nm[1] = 1
     /\ \A n \in Nodes : n > 1 => \E m \in 1..(n-1) : nm[n] <= nm[m] + 1}

\* Nodes as constructed, before any edge is added.
InitAnalyzer ==
  /\ name \in NameAssignments
  /\ dependencies = EmptyLists
  /\ dependents = EmptyLists
  /\ cycle_group = NoCycleGroup
  /\ is_cycle_representative = NoRepresentative
  /\ hist = NoHist
  /\ ret = NoRet
  /\ NoRunYet

\* source_node.add_dependency(target_node) while the graph is being put
\* together (dependency_graph_builder.py adds no edge from a node to itself)
GraphAddDependency(a, b) ==
  LET r == add_dependency(dependencies, dependents, a, b)
  IN /\ ret = NoRet
     /\ a # b
     /\ ~InList(b, dependencies[a])
     /\ EdgeCount(r.dependencies) <= MaxEdges
     /\ dependencies' = r.dependencies
     /\ dependents' = r.dependents
     /\ UNCHANGED <<name, cycle_group, is_cycle_representative, hist, ret, schedVars>>

\* analyzer._detect_cycles(graph)
DetectCycles ==
  /\ ret' = [op |-> "_detect_cycles", kind |-> "return", exc |-> "", order |-> <<>>,
             cycles |-> detect_cycles(name, dependencies)]
  /\ UNCHANGED <<nodeVars, hist, schedVars>>

\* analyzer._generate_topological_order(graph)
GenerateTopologicalOrder ==
  LET t == generate_topological_order(name, dependencies)
  IN /\ ret' = [op |-> "_generate_topological_order", kind |-> t.kind, exc |-> t.exc,
                order |-> t.order, cycles |-> <<>>]
     /\ UNCHANGED <<nodeVars, hist, schedVars>>

\* analyzer.get_documentation_order(graph)
GetDocumentationOrder ==
  LET t == get_documentation_order(name, dependencies)
  IN /\ ret' = [op |-> "get_documentation_order", kind |-> t.kind, exc |-> t.exc,
                order |-> t.order, cycles |-> <<>>]
     /\ UNCHANGED <<nodeVars, hist, schedVars>>

\* analyzer.get_cycle_representatives(graph)
GetCycleRepresentatives ==
  /\ ret' = [op |-> "get_cycle_representatives", kind |-> "return", exc |-> "",
             order |-> get_cycle_representatives(name, dependencies), cycles |-> <<>>]
  /\ UNCHANGED <<nodeVars, hist, schedVars>>

\* analyzer.analyze_graph(graph): the dict's "cycles" and "topological_order"
\* (the metrics and the validation only read the graph); an exception of
\* _generate_topological_order leaves analyze_graph. No node field is written.
AnalyzeGraph ==
  LET c == detect_cycles(name, dependencies)
      t == generate_topological_order(name, dependencies)
  IN /\ ret' = [op |-> "analyze_graph", kind |-> t.kind, exc |-> t.exc,
                order |-> t.order,
                cycles |-> IF t.kind = "return" THEN c ELSE <<>>]
     /\ UNCHANGED <<nodeVars, hist, schedVars>>

NextAnalyzer ==
  \/ \E a, b \in Nodes : GraphAddDependency(a, b)
  \/ DetectCycles
  \/ GenerateTopologicalOrder
  \/ GetDocumentationOrder
  \/ GetCycleRepresentatives
  \/ AnalyzeGraph

SpecAnalyzer == InitAnalyzer /\ [][NextAnalyzer]_vars

-----------------------------------------------------------------------------
(* Module trees (tree_builder.py) and the dependency graph built from them  *)
(* (dependency_graph_builder.py, import_analyzer.py)                        *)

\* a bound on the import statements of all modules of a tree together
MaxImports == 2

\* a module name of the analyzer's standard-library list, such as "os"
StdlibName == NumNodes + 1

\* the module names an import statement may carry
ImportNames == Names \cup {StdlibName}

\* An import statement as ImportExtractor records it: the dotted module name
\* as the list of its components (empty for "from . import x"), is_relative
\* and relative_level. The dots of a relative import are in relative_level:
\* ast keeps them out of the module name.
ImportStatement(module_name, level) ==
  [module_name |-> module_name, is_relative |-> level > 0, relative_level |-> level]

\* "import m" for a name m without dots
AbsoluteImport(m) == ImportStatement(<<m>>, 0)

\* The import statements of the modules in ms, module by module, each as the
\* pair of the importing module and the statement; the statements are
\* absolute imports of names without dots.
ImportStatements(ms) ==
  {st \in UNION {[1..l -> ms \X {AbsoluteImport(m) : m \in ImportNames}] :
                 l \in 0..MaxImports} :
     \A i \in 1..(Len(st) - 1) : st[i][1] <= st[i+1][1]}

\* the import statements of module n, in source order
ImportsOf(st, n) ==
  LET own == SelectSeq(st, LAMBDA e : e[1] = n)
  IN [i \in 1..Len(own) |-> own[i][2]]

RECURSIVE AncestorsOrSelf(_, _)
AncestorsOrSelf(par, n) ==
  IF n = None THEN {} ELSE {n} \cup AncestorsOrSelf(par, par[n])

\* Trees with the nodes numbered in pre-order: node 1 is the root and each
\* further node hangs under the previous node or one of its ancestors.
ModuleTrees ==
  {par \in [Nodes -> {None} \cup Nodes] :
     /\ par[1] = None
     /\ \A n \in Nodes \ {1} : par[n] \in 1..(n-1)
     /\ \A n \in Nodes \ {1} : par[n] \in AncestorsOrSelf(par, n-1)}

\* node.children, in the order add_child appended them
Children(par, n) == SelectSeq([i \in 1..NumNodes |-> i], LAMBDA c : par[c] = n)

\* DocumentationGenerator._get_all_nodes(root_node): the node, then the
\* nodes of each child's subtree
RECURSIVE tree_get_all_nodes(_, _)
tree_get_all_nodes(par, n) ==
  LET ch == Children(par, n)
      RECURSIVE Extend(_)
      Extend(k) == IF k > Len(ch) THEN <<>>
                   ELSE tree_get_all_nodes(par, ch[k]) \o Extend(k+1)
  IN <<n>> \o Extend(1)

\* node.is_root: build_module_tree marks the node of the root directory
is_root(n) == n = 1

\* The node's path is a directory: the project root and every package.
IsDirectory(n) == is_root(n) \/ is_package[n]

\* Paths are <parent's directory>/<name> for a package and
\* <parent's directory>/<name>.py for a module: two nodes never share one.
DistinctPaths ==
  \A m, n \in Nodes :
    (parent[m] = parent[n] /\ name[m] = name[n] /\ is_package[m] = is_package[n])
      => m = n

\* ImportAnalyzer._is_standard_library_module: the name, or its part before
\* the first dot, is in the hard-coded set (whose entries have no dots)
is_standard_library_module(module_name) == module_name[1] = StdlibName

\* ImportAnalyzer._is_project_module: <project_root>/<module_name>.py or
\* <project_root>/<module_name>/__init__.py exists, the dotted name taken as
\* it is; no file or directory of a tree has a dot in its name.
is_project_module(module_name, project_root) ==
  /\ Len(module_name) = 1
  /\ \E n \in Nodes :
       /\ parent[n] = project_root
       /\ name[n] = module_name[1]
       /\ (is_package[n] \/ Children(parent, n) = <<>>)

\* A mutant of is_external_import that takes a name for external unless a
\* project file answers to it.
is_external_unless_in_project(import_stmt, project_root) ==
  IF import_stmt.is_relative THEN FALSE
  ELSE IF import_stmt.module_name = <<>> THEN FALSE
  ELSE IF is_standard_library_module(import_stmt.module_name) THEN TRUE
  ELSE IF is_project_module(import_stmt.module_name, project_root) THEN FALSE
  ELSE TRUE

\* ImportAnalyzer.is_external_import
is_external_import(import_stmt, project_root) ==
  IF import_stmt.is_relative THEN FALSE
  ELSE IF import_stmt.module_name = <<>> THEN FALSE
  ELSE IF is_standard_library_module(import_stmt.module_name) THEN TRUE
  ELSE IF is_project_module(import_stmt.module_name, project_root) THEN FALSE
  ELSE FALSE

\* self.module_path_map.get(str(self.project_root / f"{module_name}.py")):
\* the dotted name is put into the file name as it is, so only a name without
\* dots can be the path of a node, a module directly under the project root
path_map_get(module_name, b) ==
  LET hits == {n \in b.module_path_map :
                 /\ parent[n] = b.project_root
                 /\ ~is_package[n]
                 /\ Len(module_name) = 1
                 /\ name[n] = module_name[1]}
  IN IF hits = {} THEN None ELSE CHOOSE n \in hits : TRUE

\* DependencyGraphBuilder._resolve_relative_import: the module name of a
\* statement never starts with a dot, so the branch taken is the one that
\* looks under the project root; relative_level is not read
resolve_relative_import(import_stmt, source_node, b) ==
  path_map_get(import_stmt.module_name, b)

\* DependencyGraphBuilder._resolve_absolute_import
resolve_absolute_import(import_stmt, source_node, b) ==
  path_map_get(import_stmt.module_name, b)

\* DependencyGraphBuilder._resolve_import_to_module
resolve_import_to_module(import_stmt, source_node, b) ==
  IF import_stmt.is_relative
  THEN resolve_relative_import(import_stmt, source_node, b)
  ELSE resolve_absolute_import(import_stmt, source_node, b)

\* What extracting the imports of one node does in analyze_project_imports:
\* a node with content is parsed and SyntaxError leaves the method; a node
\* without content has its path opened as a file, which fails on a directory
\* with IsADirectoryError (an OSError that no handler catches)
extract_imports_error(n) ==
  IF ~content[n].present /\ IsDirectory(n) THEN "IsADirectoryError"
  ELSE IF ~content[n].syntax_ok THEN "SyntaxError"
  ELSE ""

\* ImportAnalyzer.analyze_project_imports(module_nodes): the nodes in list
\* order up to the first one that raises, and the names noted in
\* external_modules on the way
analyze_project_imports(module_nodes, b) ==
  LET bad == {k \in 1..Len(module_nodes) : extract_imports_error(module_nodes[k]) # ""}
      stop == IF bad = {} THEN Len(module_nodes) + 1
              ELSE CHOOSE k \in bad : \A j \in bad : k <= j
      seen == {module_nodes[k] : k \in 1..(stop - 1)}
      ext == b.external_modules \cup
               UNION {{content[n].imports[i].module_name :
                         i \in {i \in 1..Len(content[n].imports) :
                                  is_external_import(content[n].imports[i],
                                                     b.project_root)}} : n \in seen}
  IN [kind |-> IF bad = {} THEN "return" ELSE "raise",
      exc |-> IF bad = {} THEN "" ELSE extract_imports_error(module_nodes[stop]),
      external_modules |-> ext]

\* the inner loop of _build_dependencies over one module's import statements
RECURSIVE AddImportEdges(_, _, _, _)
AddImportEdges(g, source_node, imps, b) ==
  IF imps = <<>> THEN g
  ELSE LET import_stmt == Head(imps)
           target_node == resolve_import_to_module(import_stmt, source_node, b)
           g2 == IF /\ ~is_external_import(import_stmt, b.project_root)
                    /\ target_node # None
                    /\ target_node # source_node
                 THEN add_dependency(g.dependencies, g.dependents,
                                     source_node, target_node)
                 ELSE g
       IN AddImportEdges(g2, source_node, Tail(imps), b)

\* DependencyGraphBuilder._build_dependencies: the modules in the order of
\* project_imports, which is the order of the node list
RECURSIVE build_dependencies(_, _, _, _)
build_dependencies(g, module_nodes, k, b) ==
  IF k > Len(module_nodes) THEN g
  ELSE build_dependencies(
         AddImportEdges(g, module_nodes[k], content[module_nodes[k]].imports, b),
         module_nodes, k + 1, b)

\* DependencyGraphBuilder.build_graph(module_nodes) on builder b: the nodes
\* enter module_path_map first, then the imports are analyzed, then the edges
\* are added. Returns the edge lists of the nodes and the builder afterwards,
\* and the exception that leaves the method, if any.
build_graph(module_nodes, b) ==
  LET b1 == [b EXCEPT !.module_path_map = @ \cup ListSet(module_nodes)]
      a == analyze_project_imports(module_nodes, b1)
      b2 == [b1 EXCEPT !.external_modules = a.external_modules]
      g == build_dependencies([dependencies |-> dependencies,
                               dependents |-> dependents], module_nodes, 1, b2)
  IN IF a.kind = "raise"
     THEN [kind |-> "raise", exc |-> a.exc, builder |-> b2,
           dependencies |-> dependencies, dependents |-> dependents]
     ELSE [kind |-> "return", exc |-> "", builder |-> b2,
           dependencies |-> g.dependencies, dependents |-> g.dependents]

-----------------------------------------------------------------------------
(* The collaborators of the scheduler: generation client, persistence,      *)
(* cache (llm_client.py, file_manager.py, cache.py)                         *)

\* documentation.startswith("Error:")
StartsWithError(d) == Len(d) > 0 /\ d[1] = "Error:"

\* The generation step of a node in the main loop and in _document_node:
\* the root is only told apart by _document_tree_recursive.
document_step(n) == IF is_package[n] THEN "package" ELSE "module"

\* What a generation call can do: return text, return no text, return the
\* client's "Error: ..." text, or raise. LLMClient raises RuntimeError when no
\* model is configured; its module and package methods take no
\* dependency_context keyword, so the calls of _document_module and
\* _document_package raise TypeError on it.
GenerationOutcomes(step) ==
  {[kind |-> "return", doc |-> GoodDoc, exc |-> ""],
   [kind |-> "return", doc |-> NoDoc, exc |-> ""],
   [kind |-> "return", doc |-> LLMErrorDoc, exc |-> ""],
   [kind |-> "raise", doc |-> NoDoc,
    exc |-> IF step = "project" THEN "RuntimeError" ELSE "TypeError"]}

\* FileManager.save_documentation(node, documentation): False without writing
\* for empty or "Error:" text, otherwise whether the file could be written
save_documentation(d, write_ok) ==
  IF d = NoDoc \/ StartsWithError(d) THEN FALSE ELSE write_ok

\* str() of an integer below ten
str_int(k) == <<(<<"0", "1", "2", "3", "4", "5", "6", "7", "8", "9">>)[k + 1]>>

\* A mutant of the hash that leaves the modification time out.
file_hash_without_mtime(f) ==
  IF f.status = "missing" THEN NoHash
  ELSE IF f.status = "unreadable" THEN NoHash
  ELSE <<"b'">> \o f.content \o <<"'">> \o str_int(Len(f.content))

\* DocumentationCache.get_file_hash on a file: "" when it does not exist or
\* reading it raises OSError, else the SHA-256 digest of
\* f"{content}{stat.st_mtime}{stat.st_size}", written here as the hashed
\* text itself (the digest is taken to have no collisions)
file_hash(f) ==
  IF f.status = "missing" THEN NoHash
  ELSE IF f.status = "unreadable" THEN NoHash
  ELSE <<"b'">> \o f.content \o <<"'">> \o f.mtime \o str_int(Len(f.content))

\* DocumentationCache.get_file_hash(node.get_file_path()): "" when the path
\* cannot be read as a file, which is the case of a root directory that is
\* no package
get_file_hash(n) ==
  IF is_root(n) /\ ~is_package[n] THEN NoHash ELSE file_hash(files[n])

\* DocumentationCache.is_cached(node.path, file_path)
is_cached(n) ==
  /\ cache.cache_data[n].hash # NoHash
  /\ cache.cache_data[n].hash = get_file_hash(n)

\* DocumentationCache.get_cached_documentation(node.path)
get_cached_documentation(n) == cache.cache_data[n].documentation

\* DocumentationCache.cache_documentation(node.path, file_path, documentation)
cache_documentation(n, d) ==
  [cache EXCEPT !.cache_data[n] = [hash |-> get_file_hash(n), documentation |-> d]]

\* DocumentationGenerator._get_dependency_context(node, exclude_nodes): the
\* keys of the returned dict, in insertion order
get_dependency_context(n, exclude_nodes) ==
  LET deps == SelectSeq(dependencies[n],
                        LAMBDA d : /\ d \notin exclude_nodes
                                   /\ documentation[d] # NoDoc
                                   /\ processed[d])
  IN AppendAllNew(<<>>, [j \in 1..Len(deps) |-> name[deps[j]]])

\* The body of a try block of the scheduler: the generation call, then
\* cache_documentation, then save_documentation and its result
try_document(out, write_ok) ==
  IF out.kind = "raise"
  THEN [assigned |-> FALSE, documentation |-> NoDoc, processed |-> FALSE, exc |-> out.exc]
  ELSE IF save_documentation(out.doc, write_ok)
       THEN [assigned |-> TRUE, documentation |-> out.doc, processed |-> TRUE, exc |-> ""]
       ELSE [assigned |-> TRUE, documentation |-> out.doc, processed |-> FALSE,
             exc |-> "DocumentationError"]

\* What went wrong in a try block: the generation call raised, or
\* save_documentation returned False
failure_kind(out, t) ==
  IF t.exc = "" THEN "" ELSE IF out.kind = "raise" THEN "generation" ELSE "persistence"

\* A mutant of the main loop's handler that stores the error text and goes on.
main_loop_except_and_go_on(t) ==
  IF t.exc # "" /\ ExceptMatches(t.exc, "Exception")
  THEN [t EXCEPT !.assigned = TRUE, !.documentation = FailedDoc, !.processed = FALSE,
                 !.exc = ""]
  ELSE t

\* The handler of the main loop: except Exception as e stores the error
\* text, resets processed and raises DocumentationError from e
main_loop_except(t) ==
  IF t.exc # "" /\ ExceptMatches(t.exc, "Exception")
  THEN [t EXCEPT !.assigned = TRUE, !.documentation = FailedDoc, !.processed = FALSE,
                 !.exc = "DocumentationError"]
  ELSE t

\* The handler of the cycle loop: except Exception as e stores the error
\* text and resets processed; nothing is raised
cycle_loop_except(t) ==
  IF t.exc # "" /\ ExceptMatches(t.exc, "Exception")
  THEN [t EXCEPT !.assigned = TRUE, !.documentation = FailedDoc, !.processed = FALSE,
                 !.exc = ""]
  ELSE t

-----------------------------------------------------------------------------
(* DocumentationGenerator.document_module_tree_bottom_up                    *)
(* (documentation_generator.py), one step per loop iteration                *)

\* A module tree as handed to the scheduler, no node documented yet, and the
\* mode the call resolves to (use_dependency_ordering, by default
\* self.use_dependency_graph). Module nodes carry their source text; the
\* root and the packages are directories, which build_module_tree leaves
\* without content and which a caller that builds the tree itself may give
\* content (taken here without imports). The recursive mode never looks at
\* the imports, and a dependency-aware run over a tree whose directories have
\* no content ends in build_graph before it looks at them, so those trees
\* are taken without imports.
InitScheduler ==
  /\ name \in NameAssignments
  /\ parent \in ModuleTrees
  /\ is_package \in [Nodes -> BOOLEAN]
  /\ \A n \in Nodes \ {1} : Children(parent, n) # <<>> => is_package[n]
  /\ DistinctPaths
  /\ \E use_dependency_ordering, dirs \in BOOLEAN :
       \E st \in IF use_dependency_ordering /\ dirs
                 THEN ImportStatements({n \in Nodes : ~IsDirectory(n)})
                 ELSE {<<>>} :
         /\ content = [n \in Nodes |->
                         IF IsDirectory(n)
                         THEN [present |-> dirs, syntax_ok |-> TRUE, imports |-> <<>>]
                         ELSE [present |-> TRUE, syntax_ok |-> TRUE,
                               imports |-> ImportsOf(st, n)]]
         /\ run = [IdleRun EXCEPT !.mode = IF use_dependency_ordering
                                           THEN "dependency" ELSE "recursive"]
  /\ dependencies = EmptyLists
  /\ dependents = EmptyLists
  /\ cycle_group = NoCycleGroup
  /\ is_cycle_representative = NoRepresentative
  /\ documentation = [n \in Nodes |-> NoDoc]
  /\ processed = [n \in Nodes |-> FALSE]
  /\ cache = NoCache
  /\ force_regenerate = FALSE
  /\ builder = NewBuilder(1)
  /\ files = [n \in Nodes |-> DefaultFile]
  /\ hist = NoHist
  /\ ret = NoRet

\* _document_with_dependency_graph up to the main loop: flatten the tree,
\* build the graph, detect the cycles, compute the order, set up the progress
\* tracker. An exception of build_graph or get_documentation_order other than
\* ValueError leaves the method.
StartDependencyRun ==
  /\ run.pc = "idle"
  /\ run.mode = "dependency"
  /\ \E all_nodes \in {tree_get_all_nodes(parent, 1)} :
     \E g \in {build_graph(all_nodes, NewBuilder(1))} :
     \E cycles \in {IF g.kind = "raise" THEN <<>>
                     ELSE detect_cycles(name, g.dependencies)} :
     \E t \in {IF g.kind = "raise"
                THEN [kind |-> "raise", exc |-> g.exc, order |-> <<>>]
                ELSE get_documentation_order(name, g.dependencies)} :
     LET entered == [run EXCEPT !.entry_processed = {n \in Nodes : processed[n]}]
         fallback == t.kind = "raise" /\ ExceptMatches(t.exc, "ValueError")
         doc_order == IF fallback THEN SortedByDependencyCount(all_nodes, g.dependencies)
                      ELSE t.order
     IN /\ dependencies' = g.dependencies
        /\ dependents' = g.dependents
        /\ run' = IF g.kind = "raise"
                  THEN [entered EXCEPT !.pc = "raised", !.exc = g.exc]
                  ELSE IF t.kind = "raise" /\ ~fallback
                  THEN [entered EXCEPT !.pc = "raised", !.exc = t.exc,
                                       !.cycles = cycles]
                  ELSE [entered EXCEPT !.pc = "main_loop",
                                       !.doc_order = doc_order, !.cycles = cycles,
                                       !.i = 1,
                                       !.progress_total = Len(doc_order) + Len(cycles)]
  /\ UNCHANGED <<name, cycle_group, is_cycle_representative, hist, ret, builder, files, parent,
                 is_package, content, documentation, processed, cache, force_regenerate>>

\* A mutant of the main loop's skip test that forgets the processed flag.
skip_cycle_nodes_only(module_node, cycle_nodes) == module_node \in cycle_nodes

\* The two "continue" tests at the head of the main loop: the node is
\* processed already, or it belongs to a cycle
skip_in_main_loop(module_node, cycle_nodes) ==
  processed[module_node] \/ module_node \in cycle_nodes

\* A mutant of the cache check that does not look at force_regenerate.
cached_documentation_although_forced(n) ==
  IF cache.attached /\ is_cached(n)
  THEN get_cached_documentation(n)
  ELSE NoDoc

\* the cached text the scheduler reuses for a node, if any
cached_documentation(n) ==
  IF cache.attached /\ ~force_regenerate /\ is_cached(n)
  THEN get_cached_documentation(n)
  ELSE NoDoc

\* One iteration of "for module_node in doc_order" (the main loop).
DocumentNextInOrder ==
  /\ run.pc = "main_loop"
  /\ run.i <= Len(run.doc_order)
  /\ LET module_node == run.doc_order[run.i]
         cycle_nodes == UNION {ListSet(run.cycles[j]) : j \in 1..Len(run.cycles)}
         cached_doc == cached_documentation(module_node)
         dep_context == get_dependency_context(module_node, {})
         step == document_step(module_node)
     IN IF skip_in_main_loop(module_node, cycle_nodes)
        THEN /\ run' = [run EXCEPT !.i = @ + 1]
             /\ UNCHANGED <<documentation, processed, cache>>
        ELSE IF cached_doc # NoDoc
        THEN /\ documentation' = [documentation EXCEPT ![module_node] = cached_doc]
             /\ processed' = [processed EXCEPT ![module_node] = TRUE]
             /\ run' = [run EXCEPT !.i = @ + 1, !.progress_current = @ + 1]
             /\ UNCHANGED cache
        ELSE \E call \in {[node |-> module_node, step |-> step,
                             context |-> dep_context]} :
             \E out \in GenerationOutcomes(step), write_ok \in BOOLEAN :
               LET t == try_document(out, write_ok)
                   r == main_loop_except(t)
               IN /\ documentation' = [documentation EXCEPT ![module_node] = r.documentation]
                  /\ processed' = [processed EXCEPT ![module_node] = r.processed]
                  /\ cache' = IF cache.attached /\ t.assigned
                              THEN cache_documentation(module_node, t.documentation)
                              ELSE cache
                  /\ run' = [run EXCEPT
                               !.calls = Append(@, call),
                               !.progress_current = @ + 1,
                               !.failed = IF t.exc # "" THEN module_node ELSE @,
                               !.failure = failure_kind(out, t),
                               !.i = IF r.exc # "" THEN @ ELSE @ + 1,
                               !.pc = IF r.exc # "" THEN "raised" ELSE @,
                               !.exc = r.exc]
  /\ UNCHANGED <<nodeVars, hist, ret, builder, files, parent, is_package, content, force_regenerate>>

\* progress_tracker.finish() and "return node.documentation or ''"
finish_run(r, docs) ==
  [r EXCEPT !.pc = "done", !.returned = docs[1],
            !.progress_current = IF @ < r.progress_total THEN r.progress_total ELSE @]

\* After the main loop: on to the cycle groups, then to the root if it is
\* still unprocessed, then progress_tracker.finish() and the return.
LeaveMainLoop ==
  /\ run.pc = "main_loop"
  /\ run.i > Len(run.doc_order)
  /\ run' = IF run.cycles # <<>>
            THEN [run EXCEPT !.pc = "cycle_loop", !.c = 1, !.k = 1]
            ELSE IF is_root(1) /\ ~processed[1]
            THEN [run EXCEPT !.pc = "root_step"]
            ELSE finish_run(run, documentation)
  /\ UNCHANGED <<nodeVars, hist, ret, builder, files, parent, is_package, content, documentation,
                 processed, cache, force_regenerate>>

\* One iteration of "for cycle_node in cycle" inside "for cycle in cycles".
\* It needs a non-empty list of cycles next to a documentation order, which
\* get_documentation_order never delivers (CycleLoopNeverEntered below), so
\* it is no step of NextScheduler.
DocumentCycleMember ==
  /\ run.pc = "cycle_loop"
  /\ run.c <= Len(run.cycles)
  /\ LET cycle == run.cycles[run.c]
         cycle_node == cycle[run.k]
         cached_doc == cached_documentation(cycle_node)
         dep_context == get_dependency_context(cycle_node, ListSet(cycle))
         step == document_step(cycle_node)
         advance(r) == IF r.k < Len(cycle) THEN [r EXCEPT !.k = @ + 1]
                       ELSE [r EXCEPT !.c = @ + 1, !.k = 1]
     IN IF processed[cycle_node]
        THEN /\ run' = advance([run EXCEPT !.progress_current = @ + 1])
             /\ UNCHANGED <<documentation, processed, cache>>
        ELSE IF cached_doc # NoDoc
        THEN /\ documentation' = [documentation EXCEPT ![cycle_node] = cached_doc]
             /\ processed' = [processed EXCEPT ![cycle_node] = TRUE]
             /\ run' = advance([run EXCEPT !.progress_current = @ + 1])
             /\ UNCHANGED cache
        ELSE \E out \in GenerationOutcomes(step), write_ok \in BOOLEAN :
               LET t == try_document(out, write_ok)
                   r == cycle_loop_except(t)
                   call == [node |-> cycle_node, step |-> step, context |-> dep_context]
               IN /\ documentation' = [documentation EXCEPT ![cycle_node] = r.documentation]
                  /\ processed' = [processed EXCEPT ![cycle_node] = r.processed]
                  /\ cache' = IF cache.attached /\ t.assigned
                              THEN cache_documentation(cycle_node, t.documentation)
                              ELSE cache
                  /\ run' = advance([run EXCEPT
                                       !.calls = Append(@, call),
                                       !.progress_current = @ + 1,
                                       !.failed = IF t.exc # "" THEN cycle_node ELSE @,
                                       !.failure = failure_kind(out, t)])
  /\ UNCHANGED <<nodeVars, hist, ret, builder, files, parent, is_package, content, force_regenerate>>

\* After the last cycle group: on to the root step or to the return.
LeaveCycleLoop ==
  /\ run.pc = "cycle_loop"
  /\ run.c > Len(run.cycles)
  /\ run' = IF is_root(1) /\ ~processed[1]
            THEN [run EXCEPT !.pc = "root_step"]
            ELSE finish_run(run, documentation)
  /\ UNCHANGED <<nodeVars, hist, ret, builder, files, parent, is_package, content, documentation,
                 processed, cache, force_regenerate>>

\* "if node.is_root and not node.processed": the project-level step with no
\* handler around it and no raise when saving fails. The root is always part
\* of the documentation order, so the main loop has dealt with it before
\* (RootStepNeverEntered below) and this is no step of NextScheduler.
DocumentRootStep ==
  /\ run.pc = "root_step"
  /\ \E out \in GenerationOutcomes("project"), write_ok \in BOOLEAN :
       LET t == try_document(out, write_ok)
           call == [node |-> 1, step |-> "project", context |-> <<>>]
           r == [run EXCEPT !.calls = Append(@, call),
                            !.progress_current = @ + 1,
                            !.failed = IF t.exc # "" THEN 1 ELSE @,
                            !.failure = failure_kind(out, t)]
       IN /\ documentation' = IF t.assigned
                              THEN [documentation EXCEPT ![1] = t.documentation]
                              ELSE documentation
          /\ processed' = [processed EXCEPT ![1] = t.processed]
          /\ run' = IF out.kind = "raise"
                    THEN [r EXCEPT !.pc = "raised", !.exc = out.exc]
                    ELSE finish_run(r, documentation')
  /\ UNCHANGED <<nodeVars, hist, ret, builder, files, parent, is_package, content, cache,
                 force_regenerate>>

\* A mutant of the traversal that generates a node before its children.
RECURSIVE recursive_order_parent_first(_, _)
recursive_order_parent_first(par, n) ==
  LET ch == Children(par, n)
      RECURSIVE Extend(_)
      Extend(j) == IF j > Len(ch) THEN <<>>
                   ELSE recursive_order_parent_first(par, ch[j]) \o Extend(j + 1)
  IN IF processed[n] THEN <<>> ELSE <<n>> \o Extend(1)

\* The nodes _document_tree_recursive generates, in order: a processed node
\* returns at once, otherwise its children come first and then the node.
RECURSIVE recursive_order(_, _)
recursive_order(par, n) ==
  LET ch == Children(par, n)
      RECURSIVE Extend(_)
      Extend(j) == IF j > Len(ch) THEN <<>>
                   ELSE recursive_order(par, ch[j]) \o Extend(j + 1)
  IN IF processed[n] THEN <<>> ELSE Extend(1) \o <<n>>

\* document_module_tree_bottom_up with dependency ordering switched off
StartRecursiveRun ==
  /\ run.pc = "idle"
  /\ run.mode = "recursive"
  /\ LET order == recursive_order(parent, 1)
         entered == [run EXCEPT !.entry_processed = {n \in Nodes : processed[n]}]
     IN run' = IF order = <<>>
               THEN [entered EXCEPT !.pc = "done",
                                    !.returned = documentation[1]]
               ELSE [entered EXCEPT !.pc = "recursive",
                                    !.doc_order = order, !.i = 1]
  /\ UNCHANGED <<nodeVars, hist, ret, builder, files, parent, is_package, content, documentation,
                 processed, cache, force_regenerate>>

\* Step 2 of _document_tree_recursive for the next node: generate, save,
\* mark processed or raise DocumentationError. An exception of the generation
\* call leaves the method as it is.
DocumentTreeRecursive ==
  /\ run.pc = "recursive"
  /\ LET node == run.doc_order[run.i]
         step == IF is_root(node) THEN "project" ELSE document_step(node)
     IN \E out \in GenerationOutcomes(step), write_ok \in BOOLEAN :
          LET t == try_document(out, write_ok)
              call == [node |-> node, step |-> step, context |-> <<>>]
              r == [run EXCEPT !.calls = Append(@, call),
                               !.failed = IF t.exc # "" THEN node ELSE @,
                               !.failure = failure_kind(out, t)]
          IN /\ documentation' = IF t.assigned
                                 THEN [documentation EXCEPT ![node] = t.documentation]
                                 ELSE documentation
             /\ processed' = [processed EXCEPT ![node] = t.processed]
             /\ run' = IF t.exc # ""
                       THEN [r EXCEPT !.pc = "raised", !.exc = t.exc]
                       ELSE IF run.i = Len(run.doc_order)
                       THEN [r EXCEPT !.pc = "done", !.returned = documentation'[1]]
                       ELSE [r EXCEPT !.i = @ + 1]
  /\ UNCHANGED <<nodeVars, hist, ret, builder, files, parent, is_package, content, cache,
                 force_regenerate>>

NextScheduler ==
  \/ StartDependencyRun
  \/ DocumentNextInOrder
  \/ LeaveMainLoop
  \/ StartRecursiveRun
  \/ DocumentTreeRecursive

SpecScheduler == InitScheduler /\ [][NextScheduler]_vars

\* A module tree of which an earlier run has documented some nodes: those
\* carry processed = True and their text. The tests that decide whether a
\* node is skipped look at the flag only, so the trees are taken with content
\* on every node and without import statements.
InitResume ==
  /\ name \in NameAssignments
  /\ parent \in ModuleTrees
  /\ is_package \in [Nodes -> BOOLEAN]
  /\ \A n \in Nodes \ {1} : Children(parent, n) # <<>> => is_package[n]
  /\ DistinctPaths
  /\ content = [n \in Nodes |->
                  [present |-> TRUE, syntax_ok |-> TRUE, imports |-> <<>>]]
  /\ \E use_dependency_ordering \in BOOLEAN :
       run = [IdleRun EXCEPT !.mode = IF use_dependency_ordering
                                      THEN "dependency" ELSE "recursive"]
  /\ processed \in [Nodes -> BOOLEAN]
  /\ documentation = [n \in Nodes |-> IF processed[n] THEN ExistingDoc ELSE NoDoc]
  /\ dependencies = EmptyLists
  /\ dependents = EmptyLists
  /\ cycle_group = NoCycleGroup
  /\ is_cycle_representative = NoRepresentative
  /\ cache = NoCache
  /\ force_regenerate = FALSE
  /\ builder = NewBuilder(1)
  /\ files = [n \in Nodes |-> DefaultFile]
  /\ hist = NoHist
  /\ ret = NoRet

SpecResume == InitResume /\ [][NextScheduler]_vars

-----------------------------------------------------------------------------
(* Two processes on one project with the cache switched on                  *)
(* (cli.py main, cache.py): the second loads the cache file the first wrote *)

FirstProcess == [op |-> "process", resumed |-> FALSE]

\* A dependency-aware run with a DocumentationCache attached whose cache
\* file does not exist yet (cache_data = {}), no node documented. The cache
\* is looked at by _document_with_dependency_graph only; the trees are taken
\* with content on every node and without import statements.
InitCachedRuns ==
  /\ name \in NameAssignments
  /\ parent \in ModuleTrees
  /\ is_package \in [Nodes -> BOOLEAN]
  /\ \A n \in Nodes \ {1} : Children(parent, n) # <<>> => is_package[n]
  /\ DistinctPaths
  /\ content = [n \in Nodes |->
                  [present |-> TRUE, syntax_ok |-> TRUE, imports |-> <<>>]]
  /\ run = [IdleRun EXCEPT !.mode = "dependency"]
  /\ processed = [n \in Nodes |-> FALSE]
  /\ documentation = [n \in Nodes |-> NoDoc]
  /\ dependencies = EmptyLists
  /\ dependents = EmptyLists
  /\ cycle_group = NoCycleGroup
  /\ is_cycle_representative = NoRepresentative
  /\ cache = [NoCache EXCEPT !.attached = TRUE]
  /\ force_regenerate \in BOOLEAN
  /\ builder = NewBuilder(1)
  /\ files = [n \in Nodes |-> DefaultFile]
  /\ hist = FirstProcess
  /\ ret = NoRet

\* The process has ended (return or exception) and the program is started
\* again on the same project: the tree is built anew, so every node is
\* unprocessed and without documentation; DocumentationCache.initialize loads
\* what cache_documentation saved; --force may be given or not; one source
\* file may have been edited in between.
RunAgain ==
  /\ hist = FirstProcess
  /\ run.pc \in {"done", "raised"}
  /\ hist' = [hist EXCEPT !.resumed = TRUE]
  /\ run' = [IdleRun EXCEPT !.mode = run.mode]
  /\ documentation' = [n \in Nodes |-> NoDoc]
  /\ processed' = [n \in Nodes |-> FALSE]
  /\ dependencies' = EmptyLists
  /\ dependents' = EmptyLists
  /\ force_regenerate' \in BOOLEAN
  /\ \E edited \in Nodes \cup {None} :
       files' = [n \in Nodes |->
                   IF n = edited
                   THEN SourceFile("file", <<"a">>, <<"1", ".", "5", "1">>)
                   ELSE files[n]]
  /\ UNCHANGED <<name, cycle_group, is_cycle_representative, ret, builder, parent,
                 is_package, content, cache>>

NextCachedRuns ==
  \/ StartDependencyRun
  \/ DocumentNextInOrder
  \/ LeaveMainLoop
  \/ RunAgain

SpecCachedRuns == InitCachedRuns /\ [][NextCachedRuns]_vars

-----------------------------------------------------------------------------
(* cli.main: one process from the command line to the exit code (cli.py)    *)

\* The argparse namespace of create_parser, as far as main looks at it:
\* the switches, and whether --output and --model were given.
Args ==
  [dry_run : BOOLEAN, no_cache : BOOLEAN, force : BOOLEAN,
   no_dependency_graph : BOOLEAN, output : BOOLEAN, model : BOOLEAN]

\* What main meets on its way to the generator: nothing wrong, or the first
\* step that fails. GOOGLE_API_KEY is not set (config.validate raises
\* ConfigurationError); the project path does not exist or is no directory
\* (validate_project_path returns False); LLMClient() raises out of
\* _configure_api; the tree has neither children nor a package root
\* (build_and_validate_tree raises ValueError).
Environments ==
  {"ok", "no_api_key", "no_such_path", "path_is_file", "client", "no_modules"}

\* main has not run yet; exit_code -1 stands for "not returned".
NotStarted(args, env) ==
  [op |-> "main", args |-> args, env |-> env, stage |-> "start", exit_code |-> -1]

\* The tree build_module_tree makes of a project directory: the root and
\* the packages are directories and get no content, a module gets the text
\* of its file. Nothing is documented. Where main does not get as far as
\* the generator one tree stands for all.
InitCli ==
  /\ \E args \in Args, env \in Environments : hist = NotStarted(args, env)
  /\ name = [n \in Nodes |-> n]
  /\ parent \in ModuleTrees
  /\ is_package \in [Nodes -> BOOLEAN]
  /\ \A n \in Nodes \ {1} : Children(parent, n) # <<>> => is_package[n]
  /\ hist.env # "ok" =>
       /\ parent = [n \in Nodes |-> IF n = 1 THEN None ELSE 1]
       /\ is_package = [n \in Nodes |-> FALSE]
  /\ content = [n \in Nodes |->
                  IF IsDirectory(n) THEN NoContent
                  ELSE [present |-> TRUE, syntax_ok |-> TRUE, imports |-> <<>>]]
  /\ run = IdleRun
  /\ dependencies = EmptyLists
  /\ dependents = EmptyLists
  /\ cycle_group = NoCycleGroup
  /\ is_cycle_representative = NoRepresentative
  /\ documentation = [n \in Nodes |-> NoDoc]
  /\ processed = [n \in Nodes |-> FALSE]
  /\ cache = NoCache
  /\ force_regenerate = FALSE
  /\ builder = NewBuilder(1)
  /\ files = [n \in Nodes |-> DefaultFile]
  /\ ret = NoRet

\* "Initialize cache if enabled": the three generator fields main sets, all
\* inside "if config.use_cache and not args.dry_run"; otherwise the fields
\* keep the values of DocumentationGenerator.__init__
configure_generator(args) ==
  IF ~args.no_cache /\ ~args.dry_run
  THEN [cache |-> TRUE, force_regenerate |-> args.force,
        use_dependency_graph |-> ~args.no_dependency_graph]
  ELSE [cache |-> FALSE, force_regenerate |-> FALSE, use_dependency_graph |-> TRUE]

\* A mutant of generate_documentation without the dry-run return.
generate_documentation_returns_never(dry_run) == FALSE

\* generate_documentation: "if dry_run: ... return" before anything is read
\* or generated
generate_documentation_returns_at_once(dry_run) == dry_run

\* A mutant of main that returns 0 after a GenAIDocsError.
main_exit_code_hiding_errors(r) ==
  IF r.pc = "raised" /\ ~ExceptMatches(r.exc, "GenAIDocsError") THEN 1 ELSE 0

\* The end of main: return 0 after the summary and the validation report,
\* return 1 from each of the three handlers (KeyboardInterrupt,
\* GenAIDocsError, Exception)
main_exit_code(r) == IF r.pc = "raised" THEN 1 ELSE 0

\* main from parse_args to the call of document_module_tree_bottom_up, or to
\* its return where it does not get that far.
Main ==
  /\ hist.stage = "start"
  /\ LET g == configure_generator(hist.args)
         configured == hist.env \in {"ok", "no_modules"}
     IN /\ cache' = IF configured THEN [cache EXCEPT !.attached = g.cache] ELSE cache
        /\ force_regenerate' = IF configured THEN g.force_regenerate ELSE force_regenerate
        /\ IF hist.env # "ok"
           THEN /\ hist' = [hist EXCEPT !.stage = "returned", !.exit_code = 1]
                /\ run' = run
           ELSE IF generate_documentation_returns_at_once(hist.args.dry_run)
           THEN /\ hist' = [hist EXCEPT !.stage = "returned",
                                         !.exit_code = main_exit_code(run)]
                /\ run' = run
           ELSE /\ hist' = [hist EXCEPT !.stage = "generating"]
                /\ run' = [IdleRun EXCEPT !.mode = IF g.use_dependency_graph
                                                   THEN "dependency" ELSE "recursive"]
  /\ UNCHANGED <<nodeVars, ret, builder, files, parent, is_package, content,
                 documentation, processed>>

\* The user interrupts the run between two steps of the generator:
\* KeyboardInterrupt is no Exception, no handler of the generator takes it.
KeyboardInterrupt ==
  /\ hist.stage = "generating"
  /\ run.pc \in {"idle", "main_loop", "recursive"}
  /\ run' = [run EXCEPT !.pc = "raised", !.exc = "KeyboardInterrupt"]
  /\ UNCHANGED <<nodeVars, hist, ret, builder, files, parent, is_package, content,
                 documentation, processed, cache, force_regenerate>>

\* main after document_module_tree_bottom_up has returned or raised:
\* print_summary, validate_results and "return 0", or a handler's "return 1".
MainReturn ==
  /\ hist.stage = "generating"
  /\ run.pc \in {"done", "raised"}
  /\ hist' = [hist EXCEPT !.stage = "returned", !.exit_code = main_exit_code(run)]
  /\ UNCHANGED <<nodeVars, ret, builder, files, parent, is_package, content,
                 documentation, processed, cache, force_regenerate, run>>

\* The main loop of the dependency-aware mode is no step here: build_graph
\* opens the root directory as a file and the run ends in StartDependencyRun.
NextCli ==
  \/ Main
  \/ StartDependencyRun
  \/ StartRecursiveRun
  \/ DocumentTreeRecursive
  \/ KeyboardInterrupt
  \/ MainReturn

SpecCli == InitCli /\ [][NextCli]_vars

-----------------------------------------------------------------------------
(* LLMClient.generate_documentation against a backend (llm_client.py)       *)

\* Bound on the number of answers the backend gives in one behaviour.
MaxBackendCalls == 3

\* What model.generate_content does on one attempt: it raises, or it returns
\* a response without candidates, without content in the first candidate,
\* without parts in that content, or a well-formed response with its text.
BackendAnswers == {"raise", "no_candidates", "no_content", "no_parts", "text"}

WellFormed(answer) == answer = "text"

\* the backend's answers to the attempts to come, in order
BackendScripts ==
  UNION {[1..k -> BackendAnswers] : k \in 0..MaxBackendCalls}

\* An LLMClient after __init__, with self.model set or not, in front of a
\* backend; no call made yet.
NewClient(model, backend) ==
  [op |-> "none", model |-> model, backend |-> backend, attempts |-> <<>>]

\* what the client returns in place of raising
BackendErrorDoc(answer) ==
  IF answer = "raise" THEN LLMErrorDoc
  ELSE <<"Error:", "LLM response structure unexpected or empty">>

\* LLMClient.generate_documentation(prompt): RuntimeError without a model;
\* otherwise one call of model.generate_content, the text of a well-formed
\* response, and an "Error: ..." text for every other response and for
\* every exception of the backend
generate_documentation(client) ==
  IF ~client.model
  THEN [kind |-> "raise", exc |-> "RuntimeError", value |-> NoDoc, attempts |-> <<>>]
  ELSE LET answer == Head(client.backend)
       IN [kind |-> "return", exc |-> "",
           value |-> IF WellFormed(answer) THEN GoodDoc ELSE BackendErrorDoc(answer),
           attempts |-> <<answer>>]

InitLLM ==
  /\ \E model \in BOOLEAN, backend \in BackendScripts : hist = NewClient(model, backend)
  /\ ret = [op |-> "none", kind |-> "none", exc |-> "", value |-> NoDoc]
  /\ name = [n \in Nodes |-> n]
  /\ dependencies = EmptyLists
  /\ dependents = EmptyLists
  /\ cycle_group = NoCycleGroup
  /\ is_cycle_representative = NoRepresentative
  /\ NoRunYet

\* One call of generate_documentation; the backend answers its attempts
\* with the next answers of the script.
GenerateDocumentation ==
  /\ hist.model => hist.backend # <<>>
  /\ LET r == generate_documentation(hist)
     IN /\ ret' = [op |-> "generate_documentation", kind |-> r.kind, exc |-> r.exc,
                   value |-> r.value]
        /\ hist' = [hist EXCEPT !.op = "generate_documentation",
                                !.attempts = r.attempts,
                                !.backend = SubSeq(@, Len(r.attempts) + 1, Len(@))]
  /\ UNCHANGED <<nodeVars, schedVars>>

NextLLM == GenerateDocumentation

SpecLLM == InitLLM /\ [][NextLLM]_vars

-----------------------------------------------------------------------------
(* TreeBuilder.build_module_tree over a project directory (tree_builder.py, *)
(* file_manager.py)                                                         *)

\* Bound on the number of files and directories below the root directory.
MaxEntries == 3

\* File names as token lists: a leading "." token is a leading dot, a
\* trailing ".py" token is the suffix.
InitPy == <<"__init__", ".py">>

\* skip_dirs of TreeBuilder._should_process_directory
skip_dirs ==
  {<<"__pycache__">>, <<".", "git">>, <<".", "venv">>, <<"venv">>, <<".", "idea">>,
   <<"node_modules">>, <<"build">>, <<"dist">>, <<".", "pytest_cache">>,
   <<".", "mypy_cache">>}

\* skip_patterns of FileManager.is_valid_python_file
skip_patterns == skip_dirs \cup {<<".", "DS_Store">>}

\* the names the entries of a project directory take here
EntryNames ==
  {<<"__pycache__">>, <<".", "git">>, <<".", "env", ".py">>, <<"pkg">>,
   <<"mod", ".py">>, InitPy}

\* The root directory is entry 0. A directory tree below it: each entry is
\* a file or a directory with a name, inside the root or inside a directory
\* listed before it; no two entries of one directory share a name.
FileSystems ==
  UNION {
    {fs \in [1..k -> [parent : 0..(MaxEntries - 1), name : EntryNames,
                      kind : {"dir", "file"}]] :
       /\ \A i \in 1..k :
            fs[i].parent = 0 \/ (fs[i].parent < i /\ fs[fs[i].parent].kind = "dir")
       /\ \A i, j \in 1..k :
            (fs[i].parent = fs[j].parent /\ fs[i].name = fs[j].name) => i = j}
    : k \in 0..MaxEntries}

\* current_path.iterdir(), in the order of the listing
iterdir(fs, dir) == SelectSeq([i \in 1..Len(fs) |-> i], LAMBDA i : fs[i].parent = dir)

\* (dir / "__init__.py").exists()
has_init_py(fs, dir) == \E i \in 1..Len(fs) : fs[i].parent = dir /\ fs[i].name = InitPy

\* file_path.suffix == ".py" and item_name.endswith(".py")
endswith_py(nm) == nm[Len(nm)] = ".py"

\* FileManager.is_valid_python_file(file_path)
is_valid_python_file(nm) ==
  IF nm \in skip_patterns THEN FALSE
  ELSE IF nm[1] = "." THEN FALSE
  ELSE endswith_py(nm)

\* A mutant of the directory test that knows the dot rule only.
should_process_directory_dots_only(nm) == nm[1] # "."

\* TreeBuilder._should_process_directory(dir_path)
should_process_directory(nm) ==
  IF nm \in skip_dirs THEN FALSE ELSE nm[1] # "."

\* TreeBuilder._build_recursive(current_path, parent_node): the nodes it
\* creates, in order, each with its path (the entry), the node add_child
\* hangs it under (0 for the root node) and is_package
RECURSIVE build_recursive(_, _, _)
build_recursive(fs, current_path, parent_node) ==
  LET items == iterdir(fs, current_path)
      OfItem(item) ==
        LET nm == fs[item].name
        IN IF ~is_valid_python_file(nm) /\ ~should_process_directory(nm)
           THEN <<>>
           ELSE IF fs[item].kind = "dir"
           THEN IF has_init_py(fs, item)
                THEN <<[path |-> item, parent |-> parent_node, is_package |-> TRUE]>>
                       \o build_recursive(fs, item, item)
                ELSE build_recursive(fs, item, parent_node)
           ELSE IF endswith_py(nm)
           THEN IF nm = InitPy THEN <<>>
                ELSE <<[path |-> item, parent |-> parent_node, is_package |-> FALSE]>>
           ELSE <<>>
      RECURSIVE Iterate(_)
      Iterate(j) == IF j > Len(items) THEN <<>> ELSE OfItem(items[j]) \o Iterate(j + 1)
  IN Iterate(1)

\* TreeBuilder.build_module_tree(root_dir) on a directory: the root node's
\* is_package and the nodes below it
build_module_tree(fs) ==
  [root_is_package |-> has_init_py(fs, 0), nodes |-> build_recursive(fs, 0, 0)]

InitTreeBuilder ==
  /\ \E fs \in FileSystems : hist = [op |-> "none", fs |-> fs]
  /\ ret = [op |-> "none", root_is_package |-> FALSE, nodes |-> <<>>]
  /\ name = [n \in Nodes |-> n]
  /\ dependencies = EmptyLists
  /\ dependents = EmptyLists
  /\ cycle_group = NoCycleGroup
  /\ is_cycle_representative = NoRepresentative
  /\ NoRunYet

BuildModuleTree ==
  /\ hist.op = "none"
  /\ LET t == build_module_tree(hist.fs)
     IN ret' = [op |-> "build_module_tree", root_is_package |-> t.root_is_package,
                nodes |-> t.nodes]
  /\ hist' = [hist EXCEPT !.op = "build_module_tree"]
  /\ UNCHANGED <<nodeVars, schedVars>>

NextTreeBuilder == BuildModuleTree

SpecTreeBuilder == InitTreeBuilder /\ [][NextTreeBuilder]_vars

-----------------------------------------------------------------------------
(* DependencyGraphBuilder.build_graph called on one builder                 *)
(* (dependency_graph_builder.py)                                            *)

\* the dotted module names an import statement may carry: none, one
\* component, two components
ModuleNames ==
  {<<>>} \cup {<<a>> : a \in ImportNames}
         \cup {<<a, b>> : a \in ImportNames, b \in Names}

\* The import statements a module may hold: "import m" and "from m import x"
\* (level 0), "from .m import x" and "from . import x" (level 1),
\* "from ..m import x" and "from .. import x" (level 2).
AllImportStatements ==
  {ImportStatement(m, l) : m \in ModuleNames, l \in 0..2}
    \ {ImportStatement(<<>>, 0)}

\* A module tree with the source text of its nodes: at most one import
\* statement in the whole tree and at most one module whose text does not
\* parse. The root and the packages are directories, which build_module_tree
\* leaves without content and which a caller that builds the tree itself may
\* give content (the text of __init__.py). The builder is constructed for
\* the root directory.
InitBuilder ==
  /\ name \in NameAssignments
  /\ parent \in ModuleTrees
  /\ is_package \in [Nodes -> BOOLEAN]
  /\ \A n \in Nodes \ {1} : Children(parent, n) # <<>> => is_package[n]
  /\ DistinctPaths
  /\ \E dirs \in BOOLEAN :
       LET modules == {n \in Nodes : ~IsDirectory(n)}
           holders == IF dirs THEN Nodes ELSE modules
       IN \E st \in {<<>>} \cup {<<e>> : e \in holders \X AllImportStatements},
             broken \in {None} \cup modules :
            content = [n \in Nodes |->
                         [present |-> IsDirectory(n) => dirs,
                          syntax_ok |-> n # broken,
                          imports |-> ImportsOf(st, n)]]
  /\ dependencies = EmptyLists
  /\ dependents = EmptyLists
  /\ cycle_group = NoCycleGroup
  /\ is_cycle_representative = NoRepresentative
  /\ documentation = [n \in Nodes |-> NoDoc]
  /\ processed = [n \in Nodes |-> FALSE]
  /\ cache = NoCache
  /\ force_regenerate = FALSE
  /\ run = IdleRun
  /\ builder = NewBuilder(1)
  /\ files = [n \in Nodes |-> DefaultFile]
  /\ hist = NoHist
  /\ ret = NoRet

\* builder.build_graph(module_nodes) with the nodes of the subtree under n;
\* the edge lists before the call and the node list are remembered.
BuildGraph(n) ==
  LET module_nodes == tree_get_all_nodes(parent, n)
      r == build_graph(module_nodes, builder)
  IN /\ dependencies' = r.dependencies
     /\ dependents' = r.dependents
     /\ builder' = r.builder
     /\ hist' = [op |-> "build_graph", a |-> n, b |-> None,
                 pre_dependencies |-> dependencies, pre_dependents |-> dependents]
     /\ ret' = [op |-> "build_graph", kind |-> r.kind, exc |-> r.exc,
                order |-> module_nodes, cycles |-> <<>>]
     /\ UNCHANGED <<name, cycle_group, is_cycle_representative, parent, is_package,
                    content, documentation, processed, cache, force_regenerate, run,
                    files>>

NextBuilder == \E n \in Nodes : BuildGraph(n)

SpecBuilder == InitBuilder /\ [][NextBuilder]_vars

-----------------------------------------------------------------------------
(* ImportAnalyzer.is_external_import as a function of the declaration and   *)
(* of the project files (import_analyzer.py)                                *)

\* The project on disk, as the module tree of its root directory; a file or
\* package of the project may carry a name of the known-module set.
InitClassifier ==
  /\ \E nm \in NameAssignments, known \in {None} \cup Names :
       name = [n \in Nodes |-> IF nm[n] = known THEN StdlibName ELSE nm[n]]
  /\ parent \in ModuleTrees
  /\ is_package \in [Nodes -> BOOLEAN]
  /\ \A n \in Nodes \ {1} : Children(parent, n) # <<>> => is_package[n]
  /\ DistinctPaths
  /\ content = [n \in Nodes |->
                  [present |-> TRUE, syntax_ok |-> TRUE, imports |-> <<>>]]
  /\ dependencies = EmptyLists
  /\ dependents = EmptyLists
  /\ cycle_group = NoCycleGroup
  /\ is_cycle_representative = NoRepresentative
  /\ documentation = [n \in Nodes |-> NoDoc]
  /\ processed = [n \in Nodes |-> FALSE]
  /\ cache = NoCache
  /\ force_regenerate = FALSE
  /\ run = IdleRun
  /\ builder = NewBuilder(1)
  /\ files = [n \in Nodes |-> DefaultFile]
  /\ hist = NoHist
  /\ ret = NoRet

\* analyzer.is_external_import(import_stmt); the declaration and the answer
\* are remembered.
IsExternalImport(import_stmt) ==
  /\ ret' = [op |-> "is_external_import", kind |-> "return", exc |-> "",
             order |-> <<>>, cycles |-> <<>>, import_stmt |-> import_stmt,
             value |-> is_external_import(import_stmt, builder.project_root)]
  /\ UNCHANGED <<nodeVars, hist, schedVars>>

NextClassifier ==
  \E m \in ModuleNames, level \in 0..2 : IsExternalImport(ImportStatement(m, level))

SpecClassifier == InitClassifier /\ [][NextClassifier]_vars

-----------------------------------------------------------------------------
(* DocumentationCache next to source files that change (cache.py)           *)

\* a bound on the calls and file changes of one behaviour
MaxCacheOps == 3

\* No cache_documentation call made yet; ops counts the steps taken.
NoCacheHist == [op |-> "none", a |-> None, file |-> DefaultFile, text |-> NoDoc,
                ops |-> 0]

\* An initialized cache without entries, and the source files as the tree
\* builder found them. Node 1 is a root directory that is no package, the
\* other nodes are modules.
InitCache ==
  /\ name \in {[n \in Nodes |-> n]}
  /\ dependencies = EmptyLists
  /\ dependents = EmptyLists
  /\ cycle_group = NoCycleGroup
  /\ is_cycle_representative = NoRepresentative
  /\ parent = [n \in Nodes |-> IF n = 1 THEN None ELSE 1]
  /\ is_package = [n \in Nodes |-> FALSE]
  /\ content = [n \in Nodes |->
                  [present |-> n # 1, syntax_ok |-> TRUE, imports |-> <<>>]]
  /\ documentation = [n \in Nodes |-> NoDoc]
  /\ processed = [n \in Nodes |-> FALSE]
  /\ cache = [NoCache EXCEPT !.attached = TRUE]
  /\ force_regenerate = FALSE
  /\ run = IdleRun
  /\ builder = NewBuilder(1)
  /\ files = [n \in Nodes |-> DefaultFile]
  /\ hist = NoCacheHist
  /\ ret = NoRet

\* cache.cache_documentation(node.path, node.get_file_path(), d); the file
\* as it is at the call and the text are remembered.
CacheDocumentation(n, d) ==
  /\ hist.ops < MaxCacheOps
  /\ cache' = cache_documentation(n, d)
  /\ hist' = [op |-> "cache_documentation", a |-> n, file |-> files[n], text |-> d,
              ops |-> hist.ops + 1]
  /\ UNCHANGED <<nodeVars, ret, parent, is_package, content, documentation,
                 processed, force_regenerate, run, builder, files>>

\* what happens to the source files between two calls
ChangeFile(n, f) ==
  /\ hist.ops < MaxCacheOps
  /\ f # files[n]
  /\ files' = [files EXCEPT ![n] = f]
  /\ hist' = [hist EXCEPT !.ops = @ + 1]
  /\ UNCHANGED <<nodeVars, ret, parent, is_package, content, documentation,
                 processed, cache, force_regenerate, run, builder>>

\* the file of node n is written: new bytes, a new modification time, or both
WriteFile(n) ==
  /\ files[n].status # "missing"
  /\ \E c \in FileContents, t \in Mtimes :
       ChangeFile(n, SourceFile(files[n].status, c, t))

\* the file of node n is created again after it was deleted
CreateFile(n) ==
  /\ files[n].status = "missing"
  /\ \E c \in FileContents, t \in Mtimes : ChangeFile(n, SourceFile("file", c, t))

\* the permissions of the file of node n change: it can no longer be read, or
\* it can be read again
ChangePermission(n) ==
  /\ files[n].status # "missing"
  /\ ChangeFile(n, [files[n] EXCEPT !.status = IF @ = "file" THEN "unreadable"
                                                ELSE "file"])

\* the file of node n is deleted
DeleteFile(n) ==
  /\ files[n].status # "missing"
  /\ ChangeFile(n, SourceFile("missing", <<>>, <<"1", ".", "5">>))

NextCache ==
  \/ \E n \in Nodes, d \in {GoodDoc, ExistingDoc} : CacheDocumentation(n, d)
  \/ \E n \in Nodes : WriteFile(n)
  \/ \E n \in Nodes : CreateFile(n)
  \/ \E n \in Nodes : ChangePermission(n)
  \/ \E n \in Nodes : DeleteFile(n)

SpecCache == InitCache /\ [][NextCache]_vars

-----------------------------------------------------------------------------
(* Properties of the edge lists, checked under SpecEdges *)

\* C7: after any sequence of add_dependency and remove_dependency calls on
\* nodes that start with empty edge lists, B is in A.dependencies if and only
\* if A is in B.dependents, for all nodes A and B.
C7_Symmetry ==
  \A a, b \in Nodes : InList(b, dependencies[a]) <=> InList(a, dependents[b])

\* C7 witness: a remove has just run and two edges are still in place.
C7_Witness ==
  /\ hist.op = "remove"
  /\ EdgeCount(dependencies) >= 2

\* C8 as stated: add_dependency(A, B) directly followed by
\* remove_dependency(A, B) leaves every node's dependencies and dependents
\* as they were before the add, for every prior state of the lists.
C8_RoundTripAnyState ==
  hist.op = "add_remove" =>
    /\ dependencies = hist.pre_dependencies
    /\ dependents = hist.pre_dependents

\* C8 amended: the round trip restores every list exactly when B was not yet
\* a dependency of A before the add.
C8_RoundTripWhenAbsent ==
  (hist.op = "add_remove" /\ ~InList(hist.b, hist.pre_dependencies[hist.a])) =>
    /\ dependencies = hist.pre_dependencies
    /\ dependents = hist.pre_dependents

\* C8 witness: a round trip on an absent edge, from lists that were not empty.
C8_Witness ==
  /\ hist.op = "add_remove"
  /\ ~InList(hist.b, hist.pre_dependencies[hist.a])
  /\ Len(hist.pre_dependencies[hist.a]) >= 1
  /\ Len(hist.pre_dependents[hist.b]) >= 1

-----------------------------------------------------------------------------
(* Properties of the analyzer, checked under SpecAnalyzer *)

\* A depends on B
DependsOn(a, b) == InList(b, dependencies[a])

\* The simple cycles of the depends-on graph over ModuleNodes (by path), each
\* written from its lowest-numbered node.
PathCircuits ==
  LET g == [nodes |-> get_all_nodes, adj |-> dependencies]
  IN UNION {CircuitsThrough(g, <<r>>) : r \in Nodes}

HasCycle == PathCircuits # {}

\* no two nodes share a short name
UniqueNames == \A m, n \in Nodes : name[m] = name[n] => m = n

\* s and t list the same closed loop, possibly from different starting nodes
IsRotation(s, t) ==
  /\ Len(s) = Len(t)
  /\ Len(s) > 0
  /\ \E k \in 0..(Len(s)-1) : \A i \in 1..Len(s) : s[i] = t[((i + k - 1) % Len(s)) + 1]

\* C2: for every acyclic dependency graph _generate_topological_order
\* returns an order in which, for every edge A -> B (A depends on B), B
\* appears before A. Stated here for the graphs whose short names are
\* pairwise distinct.
C2_DependenciesFirst ==
  (ret.op = "_generate_topological_order" /\ ~HasCycle /\ UniqueNames) =>
    /\ ret.kind = "return"
    /\ \A a, b \in Nodes : DependsOn(a, b) =>
         /\ InList(a, ret.order)
         /\ InList(b, ret.order)
         /\ IndexOf(b, ret.order) < IndexOf(a, ret.order)

\* C4: when the graph contains a cycle, get_documentation_order raises
\* nothing and returns every node exactly once, ordered by non-decreasing
\* dependency count. Stated here for the graphs whose short names are
\* pairwise distinct.
C4_FallbackOrder ==
  (ret.op = "get_documentation_order" /\ HasCycle /\ UniqueNames) =>
    /\ ret.kind = "return"
    /\ Len(ret.order) = NumNodes
    /\ ListSet(ret.order) = Nodes
    /\ \A i, j \in 1..Len(ret.order) :
         i < j => Len(dependencies[ret.order[i]]) <= Len(dependencies[ret.order[j]])

\* C5: _generate_topological_order raises ValueError, and returns no order,
\* whenever the graph contains a cycle. Stated here for the graphs whose
\* short names are pairwise distinct.
C5_RaisesValueError ==
  (ret.op = "_generate_topological_order" /\ HasCycle /\ UniqueNames) =>
    /\ ret.kind = "raise"
    /\ ret.exc = "ValueError"

\* C9: _detect_cycles returns exactly the simple cycles of the depends-on
\* graph over ModuleNodes: every returned group is a closed loop of distinct
\* nodes, every closed loop is returned exactly once, and a graph without a
\* loop yields the empty list, also when two nodes share a short name.
C9_ExactlySimpleCycles ==
  ret.op = "_detect_cycles" =>
    /\ \A i \in 1..Len(ret.cycles) : \E c \in PathCircuits : IsRotation(ret.cycles[i], c)
    /\ \A c \in PathCircuits :
         Cardinality({i \in 1..Len(ret.cycles) : IsRotation(ret.cycles[i], c)}) = 1

\* C10: after cycle analysis every node of a detected cycle has cycle_group
\* set to that cycle's member list, every other node has cycle_group = None,
\* and in each cycle exactly one member, the first with the greatest
\* dependency count, has is_cycle_representative = true. Stated here for the
\* graphs whose short names are pairwise distinct.
C10_CycleMetadata ==
  LET cyc == detect_cycles(name, dependencies)
      InCycle(n) == \E i \in 1..Len(cyc) : InList(n, cyc[i])
  IN (ret.op = "analyze_graph" /\ UniqueNames) =>
       /\ \A n \in Nodes : InCycle(n) =>
            \E i \in 1..Len(cyc) : InList(n, cyc[i]) /\ cycle_group[n] = cyc[i]
       /\ \A n \in Nodes : ~InCycle(n) => cycle_group[n] = NoGroup
       /\ \A i \in 1..Len(cyc) :
            {n \in ListSet(cyc[i]) : is_cycle_representative[n]}
              = {MaxByDependencyCount(cyc[i], dependencies)}

-----------------------------------------------------------------------------
(* Properties of the scheduler, checked under SpecScheduler *)

\* The cycle loop is never entered: whenever _detect_cycles finds a cycle,
\* nx.topological_sort raises NetworkXUnfeasible on the same digraph and the
\* exception leaves _document_with_dependency_graph.
CycleLoopNeverEntered == run.pc # "cycle_loop"

\* The root step is never entered: the root is in the documentation order and
\* the main loop either marks it processed or raises.
RootStepNeverEntered == run.pc # "root_step"

\* the nodes of the detected cycles
CycleNodes == UNION {ListSet(run.cycles[j]) : j \in 1..Len(run.cycles)}

\* C1: in dependency-aware mode, whenever the generation step is invoked for
\* a node that belongs to no cycle, every dependency of that node that
\* belongs to no cycle has been completed before, and the dependency context
\* of the call has an entry for each such dependency. Stated here for the
\* trees whose short names are pairwise distinct and the runs in which no
\* generation and no save has failed.
C1_DependenciesCompletedFirst ==
  (run.mode = "dependency" /\ run.failed = None /\ UniqueNames) =>
    \A j \in 1..Len(run.calls) :
      LET n == run.calls[j].node
      IN n \notin CycleNodes =>
           \A d \in ListSet(dependencies[n]) \ CycleNodes :
             InList(name[d], run.calls[j].context)

\* C3: in dependency-aware mode, once the run is over without a failed
\* generation or save, every node on a dependency cycle has been generated,
\* and the context of its generation call has no entry for a node that
\* shares a cycle with it. Stated here for the trees whose short names are
\* pairwise distinct.
C3_CycleMembersExcluded ==
  (/\ run.mode = "dependency"
   /\ run.pc \in {"done", "raised"}
   /\ run.failed = None
   /\ UniqueNames) =>
    \A cyc \in PathCircuits : \A n \in ListSet(cyc) :
      \E j \in 1..Len(run.calls) :
        /\ run.calls[j].node = n
        /\ \A m \in ListSet(cyc) \ {n} : ~InList(name[m], run.calls[j].context)

CallCount(n) == Cardinality({j \in 1..Len(run.calls) : run.calls[j].node = n})

\* C11: in dependency-aware mode, when the run returns and no generation and
\* no save has failed, every node of the tree has had exactly one generation
\* call, is processed and has a non-empty documentation, also when two nodes
\* of the tree share a short name.
C11_EveryNodeGeneratedOnce ==
  (run.mode = "dependency" /\ run.pc = "done" /\ run.failed = None) =>
    \A n \in Nodes :
      /\ CallCount(n) = 1
      /\ processed[n]
      /\ documentation[n] # NoDoc

\* C12: in dependency-aware mode the root node is generated by the
\* project-level step only, and only once every other node of the tree is
\* processed.
C12_RootByProjectStepLast ==
  run.mode = "dependency" =>
    \A j \in 1..Len(run.calls) :
      is_root(run.calls[j].node) =>
        /\ run.calls[j].step = "project"
        /\ \A n \in Nodes : ~is_root(n) => processed[n]

-----------------------------------------------------------------------------
(* Properties of runs over partly documented trees, checked under SpecResume *)

\* C13: a node that is processed when the run is entered gets no generation
\* call (and so no save), keeps its flag and its documentation, in both
\* modes; in recursive mode a call on a processed root returns the root's
\* documentation.
C13_ProcessedSkipped ==
  /\ \A n \in run.entry_processed :
       /\ CallCount(n) = 0
       /\ processed[n]
       /\ documentation[n] = ExistingDoc
  /\ (run.mode = "recursive" /\ run.pc = "done" /\ 1 \in run.entry_processed) =>
       run.returned = ExistingDoc

\* C13 witness: a finished dependency-aware run that reached a processed
\* node in its order, skipped it and generated another node.
C13_Witness ==
  /\ run.mode = "dependency"
  /\ run.pc = "done"
  /\ run.calls # <<>>
  /\ \E j \in 1..Len(run.doc_order) : run.doc_order[j] \in run.entry_processed

\* the nodes below n in the module tree
Descendants(n) == {d \in Nodes \ {n} : n \in AncestorsOrSelf(parent, d)}

\* Every generation call of the run is made for a node whose descendants are
\* all processed, each of them generated by an earlier call of the run or
\* processed on entry; a run that returns after a call has made its last
\* call for the root.
PostOrder ==
  /\ \A j \in 1..Len(run.calls) :
       \A d \in Descendants(run.calls[j].node) :
         /\ processed[d]
         /\ \/ d \in run.entry_processed
            \/ \E i \in 1..(j-1) : run.calls[i].node = d
  /\ (run.pc = "done" /\ run.calls # <<>>) =>
       run.calls[Len(run.calls)].node = 1

\* On entry, the nodes below a processed node are processed as well: so it
\* is in a tree no run has touched and in a tree a recursive run has left.
ProcessedSubtreesOnEntry ==
  \A n \in run.entry_processed : Descendants(n) \subseteq run.entry_processed

\* C14 as stated: the recursive mode generates a node only after every
\* descendant of it has been generated, saved and marked processed, and the
\* root last, whatever the tree looks like on entry.
C14_PostOrderAnyTree == run.mode = "recursive" => PostOrder

\* C14, amended: the same for the trees in which every node below a node
\* that is processed on entry is processed as well.
C14_PostOrder ==
  (run.mode = "recursive" /\ ProcessedSubtreesOnEntry) => PostOrder

\* C14 witness: a recursive run that has returned after generating a node,
\* a child of it and a grandchild of it.
C14_Witness ==
  /\ run.mode = "recursive"
  /\ run.pc = "done"
  /\ ProcessedSubtreesOnEntry
  /\ \E a, b, c \in Nodes :
       /\ parent[c] = b /\ parent[b] = a
       /\ CallCount(a) = 1 /\ CallCount(b) = 1 /\ CallCount(c) = 1

-----------------------------------------------------------------------------
(* Properties of build_graph, checked under SpecBuilder *)

\* the edges the last build_graph call has added
AddedEdges ==
  {e \in Nodes \X Nodes :
     /\ InList(e[2], dependencies[e[1]])
     /\ ~InList(e[2], hist.pre_dependencies[e[1]])}

\* C15: every edge a build_graph call adds goes from a node of the node list
\* of that call to a different node of that list, whatever calls the builder
\* has served before; no node is in its own dependencies.
C15_EdgesWithinWorkingSet ==
  /\ \A n \in Nodes : ~InList(n, dependencies[n])
  /\ hist.op = "build_graph" =>
       \A e \in AddedEdges :
         /\ InList(e[1], ret.order)
         /\ InList(e[2], ret.order)
         /\ e[1] # e[2]

\* the directory k levels above directory dir, None above the root
RECURSIVE Up(_, _)
Up(dir, k) == IF k = 0 \/ dir = None THEN dir ELSE Up(parent[dir], k - 1)

\* the nodes found by descending from directory dir into the components of
\* the dotted name m: packages for all components but the last, a module or
\* a package for the last
RECURSIVE Located(_, _)
Located(dir, m) ==
  IF dir = None \/ m = <<>> THEN {}
  ELSE IF Len(m) = 1 THEN {n \in Nodes : parent[n] = dir /\ name[n] = m[1]}
  ELSE UNION {Located(p, Tail(m)) :
                p \in {n \in Nodes : parent[n] = dir /\ is_package[n] /\ name[n] = m[1]}}

\* where a relative import of module n points: from n's directory up
\* relative_level - 1 directories, then down the module name
RelativeLocation(n, import_stmt) ==
  Located(Up(parent[n], import_stmt.relative_level - 1), import_stmt.module_name) \ {n}

\* the first build_graph call of a builder, made on the whole tree, has returned
BuiltWholeTree ==
  /\ ret.op = "build_graph"
  /\ ret.kind = "return"
  /\ hist.a = 1
  /\ hist.pre_dependencies = EmptyLists

\* C16: after build_graph on the whole tree, a module with a relative import
\* of a non-empty name depends on the node at the location the import points
\* to, if the tree has one there, and every dependency of the module is at
\* the location of one of its relative imports or is the target of one of its
\* absolute imports.
C16_RelativeImportResolved ==
  BuiltWholeTree =>
    \A n \in Nodes :
      LET imps == content[n].imports
          rel == {i \in 1..Len(imps) :
                    imps[i].is_relative /\ imps[i].module_name # <<>>}
      IN /\ \A i \in rel :
              RelativeLocation(n, imps[i]) # {} =>
                \E d \in RelativeLocation(n, imps[i]) : InList(d, dependencies[n])
         /\ rel # {} =>
              \A d \in ListSet(dependencies[n]) :
                \E i \in 1..Len(imps) :
                  IF imps[i].is_relative THEN d \in RelativeLocation(n, imps[i])
                  ELSE d = resolve_absolute_import(imps[i], n, builder)

\* the module files found by descending from directory dir into the
\* components of the dotted name m: <dir>/p1/.../pk.py
RECURSIVE FileAt(_, _)
FileAt(dir, m) ==
  IF m = <<>> THEN {}
  ELSE IF Len(m) = 1
  THEN {n \in Nodes : parent[n] = dir /\ name[n] = m[1] /\ ~is_package[n]}
  ELSE UNION {FileAt(p, Tail(m)) :
                p \in {n \in Nodes : parent[n] = dir /\ is_package[n] /\ name[n] = m[1]}}

\* C17: after build_graph on the whole tree, a node with an absolute import
\* that the classifier takes for internal depends on the module at
\* <project_root>/p1/.../pk.py, p1...pk being the dotted name of the import,
\* if the tree has that module and it is not the importing node.
C17_AbsoluteImportResolved ==
  BuiltWholeTree =>
    \A n \in Nodes :
      \A i \in 1..Len(content[n].imports) :
        LET import_stmt == content[n].imports[i]
        IN (/\ ~import_stmt.is_relative
            /\ ~is_external_import(import_stmt, builder.project_root)) =>
             \A d \in FileAt(builder.project_root, import_stmt.module_name) \ {n} :
               InList(d, dependencies[n])

\* C18: a build_graph call whose node list holds a module with unparseable
\* text (and no directory without content) returns; the unparseable module
\* gets no outgoing edge from the call, and every other node of the list
\* depends on the target of each of its internal imports.
C18_LenientParsing ==
  (/\ ret.op = "build_graph"
   /\ \E n \in ListSet(ret.order) : ~content[n].syntax_ok
   /\ \A n \in ListSet(ret.order) : content[n].present) =>
    /\ ret.kind = "return"
    /\ \A n \in ListSet(ret.order) :
         IF ~content[n].syntax_ok
         THEN dependencies[n] = hist.pre_dependencies[n]
         ELSE \A i \in 1..Len(content[n].imports) :
                LET import_stmt == content[n].imports[i]
                    target_node == resolve_import_to_module(import_stmt, n, builder)
                IN (/\ ~is_external_import(import_stmt, builder.project_root)
                    /\ target_node # None
                    /\ target_node # n) => InList(target_node, dependencies[n])

-----------------------------------------------------------------------------
(* Properties of the import classifier, checked under SpecClassifier *)

\* C19: is_external_import answers True exactly for the declarations that
\* are not relative and whose non-empty module name, or its first dotted
\* component, is in the known-module set. The right-hand side reads the
\* declaration only, so the answer does not depend on the project files.
C19_ExternalIffKnown ==
  ret.op = "is_external_import" =>
    (ret.value <=> (/\ ~ret.import_stmt.is_relative
                    /\ ret.import_stmt.module_name # <<>>
                    /\ ret.import_stmt.module_name[1] = StdlibName))

\* C19 witness: an absolute import of an unknown name that no file of the
\* project answers to has been classified, as internal.
C19_Witness ==
  /\ ret.op = "is_external_import"
  /\ ~ret.import_stmt.is_relative
  /\ ret.import_stmt.module_name # <<>>
  /\ ret.import_stmt.module_name[1] # StdlibName
  /\ ~is_project_module(ret.import_stmt.module_name, builder.project_root)
  /\ ~ret.value

-----------------------------------------------------------------------------
(* Properties of the cache, checked under SpecCache *)

\* the file of the last cache_documentation call is as it was at the call
FileUnchanged ==
  /\ files[hist.a].status # "missing"
  /\ files[hist.a].content = hist.file.content
  /\ files[hist.a].mtime = hist.file.mtime

\* the path of the last cache_documentation call was a file, no directory
CachedAFile == ~(is_root(hist.a) /\ ~is_package[hist.a]) /\ hist.file.status # "missing"

\* C20 as stated: after cache_documentation for an existing file, is_cached
\* is true and get_cached_documentation returns the text while the file's
\* bytes, size and modification time are what they were; is_cached is false
\* once one of them differs.
C20_RoundTripExistingFile ==
  (hist.op = "cache_documentation" /\ CachedAFile) =>
    /\ FileUnchanged =>
         /\ is_cached(hist.a)
         /\ get_cached_documentation(hist.a) = hist.text
    /\ ~FileUnchanged => ~is_cached(hist.a)

\* C20, amended: the same for a file that can be read, at the call and at
\* the query.
C20_RoundTripReadableFile ==
  (hist.op = "cache_documentation" /\ CachedAFile) =>
    /\ (/\ FileUnchanged
        /\ hist.file.status = "file"
        /\ files[hist.a].status = "file") =>
         /\ is_cached(hist.a)
         /\ get_cached_documentation(hist.a) = hist.text
    /\ ~FileUnchanged => ~is_cached(hist.a)

\* C20 witness: a text was cached for a readable file, the file was changed
\* and changed back, and the entry is current again.
C20_Witness ==
  /\ hist.op = "cache_documentation"
  /\ CachedAFile
  /\ hist.file.status = "file"
  /\ hist.ops = MaxCacheOps
  /\ FileUnchanged
  /\ is_cached(hist.a)
  /\ get_cached_documentation(hist.a) = hist.text

-----------------------------------------------------------------------------
(* Properties of the cache check of the scheduler, checked under            *)
(* SpecCachedRuns                                                           *)

\* the main loop is about to deal with a node it does not skip
AtCacheCheck ==
  /\ run.pc = "main_loop"
  /\ run.i <= Len(run.doc_order)
  /\ ~skip_in_main_loop(run.doc_order[run.i], CycleNodes)

\* the cache reports a fresh entry for the node the main loop is at
FreshHit ==
  /\ cache.attached
  /\ ~force_regenerate
  /\ is_cached(run.doc_order[run.i])

\* what a cache hit does to the node the main loop is at
ReusedFromCache ==
  LET n == run.doc_order[run.i]
  IN /\ run'.calls = run.calls
     /\ documentation'[n] = get_cached_documentation(n)
     /\ processed'[n]
     /\ run'.progress_current = run.progress_current + 1

C28_ProcessedMeansDocumented ==
  \A n \in Nodes :
    processed[n] => (documentation[n] # NoDoc /\ ~StartsWithError(documentation[n]))

-----------------------------------------------------------------------------
(* Properties of cli.main, checked under SpecCli *)

\* C22: with --no-dependency-graph the generator runs the plain recursive
\* traversal and builds no dependency graph, whatever the other flags are;
\* without the flag it runs the dependency-aware ordering.
C22_ModeFollowsFlag ==
  run.mode # "none" =>
    run.mode = IF hist.args.no_dependency_graph THEN "recursive" ELSE "dependency"

\* every node of the tree was generated and saved
EveryNodeDocumented ==
  \A n \in Nodes :
    processed[n] /\ documentation[n] # NoDoc /\ ~StartsWithError(documentation[n])

\* C23 as stated: main returns 0 only when configuration validation, path
\* validation, tree building and the generation of every node succeeded, and
\* returns 1 whenever one of them failed.
C23_ExitCodeAnyRun ==
  hist.stage = "returned" =>
    hist.exit_code = IF hist.env = "ok" /\ EveryNodeDocumented THEN 0 ELSE 1

\* C23, amended: the same for a run without --dry-run; with --dry-run main
\* returns 0 when the validations and the tree building succeeded, no node
\* being generated.
C23_ExitCode ==
  hist.stage = "returned" =>
    hist.exit_code = IF /\ hist.env = "ok"
                        /\ hist.args.dry_run \/ EveryNodeDocumented
                     THEN 0 ELSE 1

\* C23 witness: a run that generated and saved every node has returned 0.
C23_Witness ==
  /\ hist.stage = "returned"
  /\ ~hist.args.dry_run
  /\ Len(run.calls) = NumNodes
  /\ EveryNodeDocumented
  /\ hist.exit_code = 0

\* with --dry-run nothing is generated, written or cached
DryRunLeavesAllAlone ==
  /\ run = IdleRun
  /\ documentation = [n \in Nodes |-> NoDoc]
  /\ processed = [n \in Nodes |-> FALSE]
  /\ cache = NoCache
  /\ files = [n \in Nodes |-> DefaultFile]

\* C24 as stated: with --dry-run the run makes no generation call, writes no
\* documentation and no cache entry, leaves documentation and processed flag
\* of every node as they were, and main returns 0.
C24_DryRunReturnsZero ==
  hist.args.dry_run =>
    /\ DryRunLeavesAllAlone
    /\ hist.stage = "returned" => hist.exit_code = 0

\* C24, amended: the same, main returning 0 when the validations and the
\* tree building succeeded and 1 when one of them failed.
C24_DryRun ==
  hist.args.dry_run =>
    /\ DryRunLeavesAllAlone
    /\ hist.stage = "returned" => hist.exit_code = IF hist.env = "ok" THEN 0 ELSE 1

\* C24 witness: a dry run over a valid project has returned 0.
C24_Witness ==
  /\ hist.args.dry_run
  /\ hist.env = "ok"
  /\ hist.stage = "returned"
  /\ hist.exit_code = 0
  /\ DryRunLeavesAllAlone

-----------------------------------------------------------------------------
(* Properties of the generation client, checked under SpecLLM *)

\* the last call failed: no model, or its last backend attempt raised or
\* returned a response that is not well-formed
GenerationFailed ==
  \/ ~hist.model
  \/ ~WellFormed(hist.attempts[Len(hist.attempts)])

\* C25: generate_documentation signals failure by raising LLMError, never by
\* a return value: it raises when the backend raises, when the response has
\* no candidates, content or parts and when no model is configured, and it
\* returns text only for a well-formed response.
C25_FailureRaisesLLMError ==
  ret.op = "generate_documentation" =>
    IF GenerationFailed
    THEN ret.kind = "raise" /\ ret.exc = "LLMError"
    ELSE ret.kind = "return" /\ ret.value = GoodDoc

\* C26: one generate call makes a bounded number of backend attempts one
\* after the other; after an attempt that raised or gave a malformed or
\* empty response it tries again, it stops at the first well-formed
\* response, and when its last attempt has failed it raises a terminal
\* error.
C26_BoundedRetry ==
  (ret.op = "generate_documentation" /\ hist.model) =>
    LET made == hist.attempts
        failed_before_last == \A j \in 1..(Len(made) - 1) : ~WellFormed(made[j])
    IN /\ Len(made) >= 1
       /\ failed_before_last
       /\ WellFormed(made[Len(made)]) => (ret.kind = "return" /\ ret.value = GoodDoc)
       /\ ~WellFormed(made[Len(made)]) => ret.kind = "raise"
       /\ (~WellFormed(made[1]) /\ Len(made) = 1) => hist.backend = <<>>

-----------------------------------------------------------------------------
(* Properties of the tree builder, checked under SpecTreeBuilder *)

\* an ignored entry: one of the ten names, or a name with a leading dot
Ignored(nm) ==
  \/ nm \in {<<"__pycache__">>, <<".", "git">>, <<".", "venv">>, <<"venv">>,
              <<".", "idea">>, <<"node_modules">>, <<"build">>, <<"dist">>,
              <<".", "pytest_cache">>, <<".", "mypy_cache">>}
  \/ nm[1] = "."

\* the entry is ignored or lies beneath an ignored directory
RECURSIVE InIgnored(_, _)
InIgnored(fs, i) ==
  IF i = 0 THEN FALSE ELSE Ignored(fs[i].name) \/ InIgnored(fs, fs[i].parent)

\* C27: build_module_tree creates no node for an ignored entry nor for
\* anything beneath an ignored directory; a directory that contains only
\* ignored entries yields a root node with zero children.
C27_IgnoredEntriesYieldNoNode ==
  ret.op = "build_module_tree" =>
    /\ \A j \in 1..Len(ret.nodes) : ~InIgnored(hist.fs, ret.nodes[j].path)
    /\ (\A i \in 1..Len(hist.fs) : hist.fs[i].parent = 0 => Ignored(hist.fs[i].name))
         => ret.nodes = <<>>

\* C27 witness: the tree of a directory that holds a module next to an
\* ignored directory with a module inside has the one node.
C27_Witness ==
  /\ ret.op = "build_module_tree"
  /\ Len(ret.nodes) = 1
  /\ \E i, j \in 1..Len(hist.fs) :
       /\ hist.fs[i].kind = "dir" /\ hist.fs[i].name = <<"__pycache__">>
       /\ hist.fs[j].parent = i /\ hist.fs[j].kind = "file"
       /\ hist.fs[j].name = <<"mod", ".py">>

-----------------------------------------------------------------------------
(* Properties of the transitive closures, checked under SpecClosure *)

\* the nodes reachable from n through one or more edges of adj
ReachableFrom(adj, n) ==
  LET RECURSIVE Grow(_, _)
      Grow(S, k) ==
        IF k = 0 THEN S
        ELSE Grow(S \cup UNION {ListSet(adj[m]) : m \in S}, k - 1)
  IN Grow(ListSet(adj[n]), NumNodes)

\* C29: get_all_dependencies and get_all_dependents terminate on every
\* dependency graph, graphs with cycles included, and return exactly the
\* nodes reachable from the node through one or more depends-on
\* (depended-on-by) edges.
C29_ClosureOnEveryGraph ==
  hist.op = "get_all" =>
    /\ ret.kind = "return"
    /\ ret.value = ReachableFrom(IF ret.op = "get_all_dependencies"
                                  THEN dependencies ELSE dependents, ret.node)

-----------------------------------------------------------------------------
(* Properties of the name-keyed DependencyGraph, checked under SpecGraph *)

\* both ends of every edge of g are nodes of g
EndpointsPresent(g) == \A e \in g.edges : e[1] \in g.nodes /\ e[2] \in g.nodes

\* C30: after any sequence of add_node, add_edge, remove_node and clear
\* both endpoints of every edge are present in nodes, and every graph
\* returned by get_subgraph has the same property.
C30_EndpointsPresent ==
  /\ EndpointsPresent(hist.graph)
  /\ EndpointsPresent(ret.subgraph)

\* C30 witness: a subgraph was taken that keeps an edge of the graph and
\* leaves out a node and an edge of it.
C30_Witness ==
  /\ ret.op = "get_subgraph"
  /\ ret.subgraph.edges # {}
  /\ ret.subgraph.nodes # hist.graph.nodes
  /\ ret.subgraph.edges # hist.graph.edges

=============================================================================
